---------------------------- MODULE Spec2Model ----------------------------
(***************************************************************************)
(* A model of the todo application: the in-memory task repository          *)
(* (todo/repository/memory_repo.py), the validation functions              *)
(* (todo/domain/models.py), the service layer                              *)
(* (todo/application/services.py) and the interactive shell                *)
(* (todo/interactive.py).                                                  *)
(*                                                                         *)
(* Variables: _tasks and _next_id are the repository's fields; result is   *)
(* what the last call of the repository or the service returned or raised; *)
(* created lists the ids handed out so far; call is the last application   *)
(* of a validation function, with its argument; shell is the position of   *)
(* the interactive loop (reading, executing, executed, ended), the line it *)
(* read, the lines its prompts read and the lines it printed.              *)
(*                                                                         *)
(* Representation of Python values:                                        *)
(*   - a str is a sequence of one-character strings ("" is <<>>);          *)
(*   - a date is <<year, month, day>>; tuples compare lexicographically;   *)
(*   - a datetime (created_at) is an integer instant;                      *)
(*   - None and the Ellipsis sentinel (...) are two values distinct from   *)
(*     every str and every date; where a list of str is expected they are  *)
(*     written NoneList and EllipsisList, distinct from every list of str; *)
(*   - a dict is the sequence of its <<key, value>> items in insertion     *)
(*     order;                                                              *)
(*   - a Task object is identified by the key under which add stored it:   *)
(*     add is the only constructor, stores each object once, and no        *)
(*     operation moves an object to another key.  A returned Task is that  *)
(*     reference.                                                          *)
(***************************************************************************)
EXTENDS Integers, Sequences, FiniteSets, TLC

VARIABLES _tasks, _next_id, result, created, call, shell

vars == <<_tasks, _next_id, result, created, call, shell>>

\* ----------------------------------------------------------------- bounds
\* Creates per behaviour of Spec, tasks updated in FieldSpec, creates per
\* behaviour of SortSpec, of AliasSpec, of OrderSpec, of TagSpec, of
\* StepSpec, of ServiceSpec and of ShellSpec.
MaxCreates == 3
MaxFieldTasks == 1
MaxSorted == 3
MaxAliased == 2
MaxOrdered == 2
MaxTagged == 2
MaxStepTasks == 2
MaxServed == 1
MaxShellTasks == 1

\* Length of the strings given to the validation functions in ValidationSpec.
MaxLen == 4

\* ----------------------------------------------------------- Python values
None == <<"None">>
Ellipsis == <<"Ellipsis">>
NoneList == <<None>>
EllipsisList == <<Ellipsis>>

s_open == <<"o", "p", "e", "n">>
s_done == <<"d", "o", "n", "e">>
s_all == <<"a", "l", "l">>
s_low == <<"l", "o", "w">>
s_med == <<"m", "e", "d">>
s_high == <<"h", "i", "g", "h">>
s_created == <<"c", "r", "e", "a", "t", "e", "d">>
s_due == <<"d", "u", "e">>
s_priority == <<"p", "r", "i", "o", "r", "i", "t", "y">>

\* date.max
date_max == <<9999, 12, 31>>

\* Python truthiness of a list of str or None: empty and None are false.
Truthy(x) == x # <<>> /\ x # NoneList

\* ------------------------------------------------------------------- dict
Keys(d) == {d[i][1] : i \in DOMAIN d}

GetItem(d, k) == d[CHOOSE i \in DOMAIN d : d[i][1] = k][2]

SetItem(d, k, v) ==
    IF k \in Keys(d)
    THEN [i \in DOMAIN d |-> IF d[i][1] = k THEN <<k, v>> ELSE d[i]]
    ELSE Append(d, <<k, v>>)

DelItem(d, k) == SelectSeq(d, LAMBDA e : e[1] # k)

\* ---------------------------------------------------------------- results
\* What a call hands back: a Task reference (task), a count, a list of Task
\* references, or an exception (exc) carrying task_id or message.
NoResult ==
    [op |-> "", exc |-> "", task |-> 0, task_id |-> 0, count |-> 0,
     list |-> <<>>, message |-> ""]

ReturnTask(op, ref) == [NoResult EXCEPT !.op = op, !.task = ref]

ReturnNone(op) == [NoResult EXCEPT !.op = op]

ReturnCount(op, n) == [NoResult EXCEPT !.op = op, !.count = n]

ReturnList(op, refs) == [NoResult EXCEPT !.op = op, !.list = refs]

TaskNotFoundError(op, task_id) ==
    [NoResult EXCEPT !.op = op, !.exc = "TaskNotFoundError", !.task_id = task_id]

ValidationError(op, message) ==
    [NoResult EXCEPT !.op = op, !.exc = "ValidationError", !.message = message]

\* ------------------------------------------------------------- repository
\* A repository operation maps the repository (tasks, next_id) to the
\* repository after the call and what the call returned (ret).
Repo(tasks, next_id, ret) == [tasks |-> tasks, next_id |-> next_id, ret |-> ret]

Task(id, title, status, created_at, due_date, priority, tags) ==
    [id |-> id, title |-> title, status |-> status, created_at |-> created_at,
     due_date |-> due_date, priority |-> priority, tags |-> tags]

\* add, were the id taken from the number of stored tasks.
add_count(r, title, created_at, due_date, priority, tags) ==
    LET id == Len(r.tasks) + 1
        task == Task(id, title, s_open, created_at, due_date, priority,
                     IF Truthy(tags) THEN tags ELSE <<>>)
    IN Repo(SetItem(r.tasks, id, task), r.next_id + 1, ReturnTask("add", id))

\* add, were the task given the number of stored tasks plus one as its id
\* while stored under the counter.
add_id_by_count(r, title, created_at, due_date, priority, tags) ==
    LET task == Task(Len(r.tasks) + 1, title, s_open, created_at, due_date,
                     priority, IF Truthy(tags) THEN tags ELSE <<>>)
    IN Repo(SetItem(r.tasks, r.next_id, task), r.next_id + 1,
            ReturnTask("add", r.next_id))

\* add, were the tags stored as they were given.
add_tags_as_given(r, title, created_at, due_date, priority, tags) ==
    LET task == Task(r.next_id, title, s_open, created_at, due_date, priority,
                     tags)
    IN Repo(SetItem(r.tasks, r.next_id, task), r.next_id + 1,
            ReturnTask("add", r.next_id))

\* add, were the id the least one not stored.
add_least_free(r, title, created_at, due_date, priority, tags) ==
    LET id == CHOOSE n \in 1 .. (Len(r.tasks) + 1) :
                  /\ n \notin Keys(r.tasks)
                  /\ \A m \in 1 .. (n - 1) : m \in Keys(r.tasks)
        task == Task(id, title, s_open, created_at, due_date, priority,
                     IF Truthy(tags) THEN tags ELSE <<>>)
    IN Repo(SetItem(r.tasks, id, task), r.next_id + 1, ReturnTask("add", id))

add(r, title, created_at, due_date, priority, tags) ==
    LET task == Task(r.next_id, title, s_open, created_at, due_date, priority,
                     IF Truthy(tags) THEN tags ELSE <<>>)
    IN Repo(SetItem(r.tasks, r.next_id, task), r.next_id + 1,
            ReturnTask("add", r.next_id))

get(r, task_id) ==
    IF task_id \notin Keys(r.tasks)
    THEN Repo(r.tasks, r.next_id, TaskNotFoundError("get", task_id))
    ELSE Repo(r.tasks, r.next_id, ReturnTask("get", task_id))

\* update, were due_date assigned whether or not it was provided.
update_assigns_due(r, task_id, title, status, due_date, priority, tags) ==
    LET g == get(r, task_id) IN
    IF g.ret.exc # ""
    THEN Repo(r.tasks, r.next_id, [g.ret EXCEPT !.op = "update"])
    ELSE
      LET t0 == GetItem(r.tasks, g.ret.task)
          t1 == IF title # None THEN [t0 EXCEPT !.title = title] ELSE t0
          t2 == IF status # None THEN [t1 EXCEPT !.status = status] ELSE t1
          t3 == [t2 EXCEPT !.due_date = IF due_date = Ellipsis THEN None ELSE due_date]
          t4 == IF priority # Ellipsis THEN [t3 EXCEPT !.priority = priority] ELSE t3
          t5 == IF tags # EllipsisList
                THEN [t4 EXCEPT !.tags = IF Truthy(tags) THEN tags ELSE <<>>]
                ELSE t4
      IN Repo(SetItem(r.tasks, g.ret.task, t5), r.next_id,
              ReturnTask("update", g.ret.task))

\* update, were it to stamp the task with a new created_at.
update_restamps(r, task_id, title, status, due_date, priority, tags) ==
    LET g == get(r, task_id) IN
    IF g.ret.exc # ""
    THEN Repo(r.tasks, r.next_id, [g.ret EXCEPT !.op = "update"])
    ELSE
      LET t0 == [GetItem(r.tasks, g.ret.task) EXCEPT !.created_at = @ + 1]
          t1 == IF title # None THEN [t0 EXCEPT !.title = title] ELSE t0
          t2 == IF status # None THEN [t1 EXCEPT !.status = status] ELSE t1
          t3 == IF due_date # Ellipsis THEN [t2 EXCEPT !.due_date = due_date] ELSE t2
          t4 == IF priority # Ellipsis THEN [t3 EXCEPT !.priority = priority] ELSE t3
          t5 == IF tags # EllipsisList
                THEN [t4 EXCEPT !.tags = IF Truthy(tags) THEN tags ELSE <<>>]
                ELSE t4
      IN Repo(SetItem(r.tasks, g.ret.task, t5), r.next_id,
              ReturnTask("update", g.ret.task))

update(r, task_id, title, status, due_date, priority, tags) ==
    LET g == get(r, task_id) IN
    IF g.ret.exc # ""
    THEN Repo(r.tasks, r.next_id, [g.ret EXCEPT !.op = "update"])
    ELSE
      LET t0 == GetItem(r.tasks, g.ret.task)
          t1 == IF title # None THEN [t0 EXCEPT !.title = title] ELSE t0
          t2 == IF status # None THEN [t1 EXCEPT !.status = status] ELSE t1
          t3 == IF due_date # Ellipsis THEN [t2 EXCEPT !.due_date = due_date] ELSE t2
          t4 == IF priority # Ellipsis THEN [t3 EXCEPT !.priority = priority] ELSE t3
          t5 == IF tags # EllipsisList
                THEN [t4 EXCEPT !.tags = IF Truthy(tags) THEN tags ELSE <<>>]
                ELSE t4
      IN Repo(SetItem(r.tasks, g.ret.task, t5), r.next_id,
              ReturnTask("update", g.ret.task))

\* delete, were a missing id ignored (dict.pop with a default).
delete_quiet(r, task_id) ==
    Repo(DelItem(r.tasks, task_id), r.next_id, ReturnNone("delete"))

\* delete, were the task stored last removed in place of the one named.
delete_last(r, task_id) ==
    IF task_id \notin Keys(r.tasks)
    THEN Repo(r.tasks, r.next_id, TaskNotFoundError("delete", task_id))
    ELSE Repo(SubSeq(r.tasks, 1, Len(r.tasks) - 1), r.next_id, ReturnNone("delete"))

\* delete, were the counter taken back when the newest task is removed.
delete_rewinds(r, task_id) ==
    IF task_id \notin Keys(r.tasks)
    THEN Repo(r.tasks, r.next_id, TaskNotFoundError("delete", task_id))
    ELSE Repo(DelItem(r.tasks, task_id),
              IF task_id = r.next_id - 1 THEN task_id ELSE r.next_id,
              ReturnNone("delete"))

delete(r, task_id) ==
    IF task_id \notin Keys(r.tasks)
    THEN Repo(r.tasks, r.next_id, TaskNotFoundError("delete", task_id))
    ELSE Repo(DelItem(r.tasks, task_id), r.next_id, ReturnNone("delete"))

RECURSIVE DelAll(_, _)
DelAll(d, ids) ==
    IF ids = <<>> THEN d ELSE DelAll(DelItem(d, Head(ids)), Tail(ids))

\* clear_done, were only the first done task removed.
clear_done_first(r) ==
    LET items == SelectSeq(r.tasks, LAMBDA e : e[2].status = s_done)
        done_ids == [i \in DOMAIN items |-> items[i][1]]
    IN Repo(DelAll(r.tasks, IF done_ids = <<>> THEN <<>> ELSE <<done_ids[1]>>),
            r.next_id,
            ReturnCount("clear_done", Len(done_ids)))

\* clear_done, were the whole dict emptied.
clear_done_all(r) ==
    LET items == SelectSeq(r.tasks, LAMBDA e : e[2].status = s_done)
        done_ids == [i \in DOMAIN items |-> items[i][1]]
    IN Repo(<<>>, r.next_id, ReturnCount("clear_done", Len(done_ids)))

clear_done(r) ==
    LET items == SelectSeq(r.tasks, LAMBDA e : e[2].status = s_done)
        done_ids == [i \in DOMAIN items |-> items[i][1]]
    IN Repo(DelAll(r.tasks, done_ids), r.next_id,
            ReturnCount("clear_done", Len(done_ids)))

\* ---------------------------------------------------------------- sorting
\* Tuples of integers in Python's (lexicographic) order.
RECURSIVE TupleLess(_, _)
TupleLess(a, b) ==
    IF a = <<>> THEN b # <<>>
    ELSE IF b = <<>> THEN FALSE
    ELSE IF Head(a) # Head(b) THEN Head(a) < Head(b)
    ELSE TupleLess(Tail(a), Tail(b))

\* Insert item p = <<key, x>> behind every item whose key is not greater.
Insert(s, p) ==
    LET n == IF \E i \in DOMAIN s : TupleLess(p[1], s[i][1])
         THEN (CHOOSE i \in DOMAIN s :
                 /\ TupleLess(p[1], s[i][1])
                 /\ \A j \in DOMAIN s : TupleLess(p[1], s[j][1]) => i <= j) - 1
         ELSE Len(s)
    IN SubSeq(s, 1, n) \o <<p>> \o SubSeq(s, n + 1, Len(s))

\* sorted(xs, key=...): a stable sort of the <<key, x>> items.
RECURSIVE SortItems(_)
SortItems(s) ==
    IF s = <<>> THEN <<>>
    ELSE Insert(SortItems(SubSeq(s, 1, Len(s) - 1)), s[Len(s)])

\* created_key, were the creation time left out of it.
created_key_id(t) == <<t.id>>

created_key(t) == <<t.created_at, t.id>>

\* due_key, were a missing due date replaced by date.min.
due_key_min(t) ==
    IF t.due_date # None
    THEN <<0>> \o t.due_date \o <<t.id>>
    ELSE <<0, 1, 1, 1, t.id>>

due_key(t) ==
    IF t.due_date # None
    THEN <<0>> \o t.due_date \o <<t.id>>
    ELSE <<1>> \o date_max \o <<t.id>>

\* priority_order, were the priorities ordered as strings.
priority_order_alphabetical(p) ==
    IF p = s_high THEN 0
    ELSE IF p = s_low THEN 1
    ELSE IF p = s_med THEN 2
    ELSE 3

priority_order(p) ==
    IF p = s_high THEN 0
    ELSE IF p = s_med THEN 1
    ELSE IF p = s_low THEN 2
    ELSE 3

\* priority_key, were ties resolved by descending id.
priority_key_desc(t) == <<priority_order(t.priority), 0 - t.id>>

priority_key(t) == <<priority_order(t.priority), t.id>>

\* refs: Task references; the keys are computed from the referenced objects.
_sort_tasks(tasks, refs, sort) ==
    LET Obj(i) == GetItem(tasks, refs[i])
        Sorted(items) == [i \in DOMAIN items |-> SortItems(items)[i][2]]
    IN IF sort = s_created
       THEN Sorted([i \in DOMAIN refs |-> <<created_key(Obj(i)), refs[i]>>])
       ELSE IF sort = s_due
       THEN Sorted([i \in DOMAIN refs |-> <<due_key(Obj(i)), refs[i]>>])
       ELSE IF sort = s_priority
       THEN Sorted([i \in DOMAIN refs |-> <<priority_key(Obj(i)), refs[i]>>])
       ELSE refs

\* str.lower on ASCII: an upper-case letter becomes the lower-case one.
UpperCase ==
    <<"A", "B", "C", "D", "E", "F", "G", "H", "I", "J", "K", "L", "M",
      "N", "O", "P", "Q", "R", "S", "T", "U", "V", "W", "X", "Y", "Z">>

LowerCase ==
    <<"a", "b", "c", "d", "e", "f", "g", "h", "i", "j", "k", "l", "m",
      "n", "o", "p", "q", "r", "s", "t", "u", "v", "w", "x", "y", "z">>

LowerChar(c) ==
    IF \E i \in DOMAIN UpperCase : UpperCase[i] = c
    THEN LowerCase[CHOOSE i \in DOMAIN UpperCase : UpperCase[i] = c]
    ELSE c

\* lower, were it to leave the letters as they are.
lower_as_is(s) == s

lower(s) == [i \in DOMAIN s |-> LowerChar(s[i])]

\* list_all, were the status filter left out.
list_all_any_status(r, status, tag, sort) ==
    LET all == [i \in DOMAIN r.tasks |-> r.tasks[i][1]]
        Obj(ref) == GetItem(r.tasks, ref)
        by_tag == IF tag # None
                  THEN SelectSeq(all, LAMBDA ref :
                         \E k \in DOMAIN Obj(ref).tags :
                            lower(Obj(ref).tags[k]) = lower(tag))
                  ELSE all
    IN IF sort = s_priority
          /\ \E i \in DOMAIN by_tag :
                Obj(by_tag[i]).priority \notin {s_high, s_med, s_low, None}
       THEN Repo(r.tasks, r.next_id,
                 [NoResult EXCEPT !.op = "list_all", !.exc = "KeyError"])
       ELSE Repo(r.tasks, r.next_id,
                 ReturnList("list_all", _sort_tasks(r.tasks, by_tag, sort)))

\* list(self._tasks.values()) is the list of the stored objects, in insertion
\* order; the comprehensions and sorted() build new lists of the same objects.
\* priority_order[t.priority] raises KeyError for a priority that is not a
\* key of the dict.
list_all(r, status, tag, sort) ==
    LET all == [i \in DOMAIN r.tasks |-> r.tasks[i][1]]
        Obj(ref) == GetItem(r.tasks, ref)
        by_status == IF status # s_all
                     THEN SelectSeq(all, LAMBDA ref : Obj(ref).status = status)
                     ELSE all
        by_tag == IF tag # None
                  THEN SelectSeq(by_status, LAMBDA ref :
                         \E k \in DOMAIN Obj(ref).tags :
                            lower(Obj(ref).tags[k]) = lower(tag))
                  ELSE by_status
    IN IF sort = s_priority
          /\ \E i \in DOMAIN by_tag :
                Obj(by_tag[i]).priority \notin {s_high, s_med, s_low, None}
       THEN Repo(r.tasks, r.next_id,
                 [NoResult EXCEPT !.op = "list_all", !.exc = "KeyError"])
       ELSE Repo(r.tasks, r.next_id,
                 ReturnList("list_all", _sort_tasks(r.tasks, by_tag, sort)))

\* -------------------------------------------------------------- validation
\* A validation function returns a value or raises ValidationError.
Valid(value) == [exc |-> "", value |-> value, message |-> ""]

Invalid(message) == [exc |-> "ValidationError", value |-> None, message |-> message]

Whitespace == {" ", "\t", "\n"}

RECURSIVE lstrip(_)
lstrip(s) ==
    IF s # <<>> /\ Head(s) \in Whitespace THEN lstrip(Tail(s)) ELSE s

\* rstrip, were it to take one whitespace character at most.
rstrip_once(s) ==
    IF s # <<>> /\ s[Len(s)] \in Whitespace
    THEN SubSeq(s, 1, Len(s) - 1)
    ELSE s

RECURSIVE rstrip(_)
rstrip(s) ==
    IF s # <<>> /\ s[Len(s)] \in Whitespace
    THEN rstrip(SubSeq(s, 1, Len(s) - 1))
    ELSE s

strip(s) == rstrip(lstrip(s))

\* validate_title, were the title returned as it was given.
validate_title_as_given(title) ==
    LET stripped == strip(title) IN
    IF stripped = <<>> THEN Invalid("Title cannot be empty") ELSE Valid(title)

validate_title(title) ==
    LET stripped == strip(title) IN
    IF stripped = <<>> THEN Invalid("Title cannot be empty") ELSE Valid(stripped)

Digits == {"0", "1", "2", "3", "4", "5", "6", "7", "8", "9"}

DigitValue(c) == CHOOSE n \in 0 .. 9 : ToString(n) = c

RECURSIVE Number(_)
Number(s) ==
    IF s = <<>> THEN 0
    ELSE 10 * Number(SubSeq(s, 1, Len(s) - 1)) + DigitValue(s[Len(s)])

IsLeap(y) == (y % 4 = 0) /\ ((y % 100 # 0) \/ (y % 400 = 0))

DaysInMonth(y, m) ==
    IF m = 2 THEN (IF IsLeap(y) THEN 29 ELSE 28)
    ELSE IF m \in {4, 6, 9, 11} THEN 30
    ELSE 31

\* date.fromisoformat: a value, or ValueError (exc).  The form YYYY-MM-DD is
\* modelled; the compact and week forms that later Python versions also read
\* (20250115, 2025-W01-1) are not among the inputs of this model.
fromisoformat(s) ==
    IF /\ Len(s) = 10
       /\ s[5] = "-"
       /\ s[8] = "-"
       /\ \A i \in {1, 2, 3, 4, 6, 7, 9, 10} : s[i] \in Digits
    THEN LET y == Number(SubSeq(s, 1, 4))
             m == Number(SubSeq(s, 6, 7))
             d == Number(SubSeq(s, 9, 10))
         IN IF y >= 1 /\ m \in 1 .. 12 /\ d \in 1 .. DaysInMonth(y, m)
            THEN Valid(<<y, m, d>>)
            ELSE [Invalid("") EXCEPT !.exc = "ValueError"]
    ELSE [Invalid("") EXCEPT !.exc = "ValueError"]

\* parse_due_date, were the ValueError of fromisoformat not caught.
parse_due_date_uncaught(due_str) ==
    IF due_str = None THEN Valid(None) ELSE fromisoformat(due_str)

parse_due_date(due_str) ==
    IF due_str = None THEN Valid(None)
    ELSE IF fromisoformat(due_str).exc = "ValueError"
    THEN Invalid("Invalid date format")
    ELSE fromisoformat(due_str)

\* validate_priority, were the priority compared without regard to case.
validate_priority_any_case(priority_str) ==
    IF priority_str = None THEN Valid(None)
    ELSE IF lower(priority_str) \notin {s_low, s_med, s_high}
    THEN Invalid("Invalid priority")
    ELSE Valid(priority_str)

validate_priority(priority_str) ==
    IF priority_str = None THEN Valid(None)
    ELSE IF priority_str \notin {s_low, s_med, s_high}
    THEN Invalid("Invalid priority")
    ELSE Valid(priority_str)

\* str.split(","): the pieces between the commas, empty pieces included.
RECURSIVE split(_)
split(s) ==
    IF \E i \in DOMAIN s : s[i] = ","
    THEN LET i == CHOOSE k \in DOMAIN s :
                    s[k] = "," /\ \A j \in 1 .. (k - 1) : s[j] # ","
         IN <<SubSeq(s, 1, i - 1)>> \o split(SubSeq(s, i + 1, Len(s)))
    ELSE <<s>>

\* parse_tags, were equal tags kept once.
parse_tags_dedup(tags_str) ==
    IF tags_str = None THEN <<>>
    ELSE LET tags == [i \in DOMAIN split(tags_str) |-> strip(split(tags_str)[i])]
             kept == SelectSeq(tags, LAMBDA t : t # <<>>)
             first == {i \in DOMAIN kept : \A j \in 1 .. (i - 1) : kept[j] # kept[i]}
             Nth(k) == CHOOSE i \in first :
                          Cardinality({j \in first : j < i}) = k - 1
         IN [k \in 1 .. Cardinality(first) |-> kept[Nth(k)]]

parse_tags(tags_str) ==
    IF tags_str = None THEN <<>>
    ELSE LET tags == [i \in DOMAIN split(tags_str) |-> strip(split(tags_str)[i])]
         IN SelectSeq(tags, LAMBDA t : t # <<>>)

\* ----------------------------------------------------------------- service
\* The same call seen from the service method that made it.
Called(op, r) == [r EXCEPT !.ret.op = op]

\* The exception v of a validation function leaves the service as it is.
Raised(op, r, v) ==
    Repo(r.tasks, r.next_id, [ValidationError(op, v.message) EXCEPT !.exc = v.exc])

\* now: what utc_now() returns during the call.
add_task(r, now, title, due, priority, tags) ==
    LET validated_title == validate_title(title)
        due_date == parse_due_date(due)
        validated_priority == validate_priority(priority)
        parsed_tags == parse_tags(tags)
    IN IF validated_title.exc # "" THEN Raised("add_task", r, validated_title)
       ELSE IF due_date.exc # "" THEN Raised("add_task", r, due_date)
       ELSE IF validated_priority.exc # "" THEN Raised("add_task", r, validated_priority)
       ELSE Called("add_task",
                   add(r, validated_title.value, now, due_date.value,
                       validated_priority.value, parsed_tags))

get_task(r, task_id) == Called("get_task", get(r, task_id))

list_tasks(r, status, tag, sort) ==
    Called("list_tasks", list_all(r, status, tag, sort))

\* mark_done, were it to turn a done task open again.
mark_done_toggle(r, task_id) ==
    Called("mark_done",
           update(r, task_id, None,
                  IF task_id \in Keys(r.tasks)
                     /\ GetItem(r.tasks, task_id).status = s_done
                  THEN s_open ELSE s_done,
                  Ellipsis, Ellipsis, EllipsisList))

mark_done(r, task_id) ==
    Called("mark_done",
           update(r, task_id, None, s_done, Ellipsis, Ellipsis, EllipsisList))

reopen_task(r, task_id) ==
    Called("reopen_task",
           update(r, task_id, None, s_open, Ellipsis, Ellipsis, EllipsisList))

\* update_task, were None taken for "not provided".
update_task_none_unset(r, task_id, title, due, priority, tags) ==
    LET Given(x) == x # Ellipsis /\ x # None
        validated_title == IF title # None THEN validate_title(title) ELSE Valid(None)
        due_date == IF Given(due) THEN parse_due_date(due) ELSE Valid(Ellipsis)
        validated_priority ==
            IF Given(priority) THEN validate_priority(priority) ELSE Valid(Ellipsis)
        parsed_tags == IF Given(tags) THEN parse_tags(tags) ELSE EllipsisList
    IN IF validated_title.exc # "" THEN Raised("update_task", r, validated_title)
       ELSE IF due_date.exc # "" THEN Raised("update_task", r, due_date)
       ELSE IF validated_priority.exc # "" THEN Raised("update_task", r, validated_priority)
       ELSE Called("update_task",
                   update(r, task_id, validated_title.value, None, due_date.value,
                          validated_priority.value, parsed_tags))

\* update_task, were each field stored as soon as it is validated.
update_task_eager(r, task_id, title, due, priority, tags) ==
    LET validated_title == IF title # None THEN validate_title(title) ELSE Valid(None)
        r1 == IF validated_title.exc = ""
              THEN update(r, task_id, validated_title.value, None, Ellipsis,
                          Ellipsis, EllipsisList)
              ELSE r
        due_date == IF due # Ellipsis THEN parse_due_date(due) ELSE Valid(Ellipsis)
        validated_priority ==
            IF priority # Ellipsis THEN validate_priority(priority) ELSE Valid(Ellipsis)
        parsed_tags == IF tags # Ellipsis THEN parse_tags(tags) ELSE EllipsisList
    IN IF validated_title.exc # "" THEN Raised("update_task", r, validated_title)
       ELSE IF due_date.exc # "" THEN Raised("update_task", r1, due_date)
       ELSE IF validated_priority.exc # "" THEN Raised("update_task", r1, validated_priority)
       ELSE Called("update_task",
                   update(r1, task_id, None, None, due_date.value,
                          validated_priority.value, parsed_tags))

update_task(r, task_id, title, due, priority, tags) ==
    LET validated_title == IF title # None THEN validate_title(title) ELSE Valid(None)
        due_date == IF due # Ellipsis THEN parse_due_date(due) ELSE Valid(Ellipsis)
        validated_priority ==
            IF priority # Ellipsis THEN validate_priority(priority) ELSE Valid(Ellipsis)
        parsed_tags == IF tags # Ellipsis THEN parse_tags(tags) ELSE EllipsisList
    IN IF validated_title.exc # "" THEN Raised("update_task", r, validated_title)
       ELSE IF due_date.exc # "" THEN Raised("update_task", r, due_date)
       ELSE IF validated_priority.exc # "" THEN Raised("update_task", r, validated_priority)
       ELSE Called("update_task",
                   update(r, task_id, validated_title.value, None, due_date.value,
                          validated_priority.value, parsed_tags))

delete_task(r, task_id) == Called("delete_task", delete(r, task_id))

service_clear_done(r) == Called("service_clear_done", clear_done(r))

\* ------------------------------------------------------- interactive shell
\* The words of the command language.
s_add == <<"a", "d", "d">>
s_list == <<"l", "i", "s", "t">>
s_show == <<"s", "h", "o", "w">>
s_reopen == <<"r", "e", "o", "p", "e", "n">>
s_update == <<"u", "p", "d", "a", "t", "e">>
s_delete == <<"d", "e", "l", "e", "t", "e">>
s_clear == <<"c", "l", "e", "a", "r">>
s_help == <<"h", "e", "l", "p">>
s_quit == <<"q", "u", "i", "t">>
s_exit == <<"e", "x", "i", "t">>
s_ls == <<"l", "s">>
s_l == <<"l">>
s_a == <<"a">>
s_rm == <<"r", "m">>
s_d == <<"d">>
s_x == <<"x">>
s_o == <<"o">>
s_u == <<"u">>
s_s == <<"s">>
s_q == <<"q">>
s_title == <<"t", "i", "t", "l", "e">>
s_tag == <<"t", "a", "g">>
s_status == <<"s", "t", "a", "t", "u", "s">>
s_sort == <<"s", "o", "r", "t">>
s_f == <<"f">>
s_force == <<"f", "o", "r", "c", "e">>
s_none == <<"n", "o", "n", "e">>
s_y == <<"y">>
s_yes == <<"y", "e", "s">>
s_qmark == <<"?">>

ALIASES ==
    <<(<<s_ls, s_list>>), (<<s_l, s_list>>), (<<s_a, s_add>>),
      (<<s_rm, s_delete>>), (<<s_d, s_delete>>), (<<s_x, s_done>>),
      (<<s_o, s_reopen>>), (<<s_u, s_update>>), (<<s_s, s_show>>),
      (<<s_qmark, s_help>>), (<<s_q, s_quit>>)>>

\* dict.get(key, default)
DictGet(d, key, default) == IF key \in Keys(d) THEN GetItem(d, key) ELSE default

\* What readline returns at the end of the input.
EOF == <<>>

\* An interrupt arriving while a line is awaited.
KeyboardInterrupt == <<"KeyboardInterrupt">>

\* str.rstrip("\n")
RECURSIVE rstrip_newline(_)
rstrip_newline(s) ==
    IF s # <<>> /\ s[Len(s)] = "\n"
    THEN rstrip_newline(SubSeq(s, 1, Len(s) - 1))
    ELSE s

startswith(s, prefix) ==
    Len(s) >= Len(prefix) /\ SubSeq(s, 1, Len(prefix)) = prefix

\* shlex.split: words are separated by whitespace, a quoted stretch belongs
\* to the word it is in, and a quote left open is a ValueError.  Escapes by
\* backslash are not among the inputs of this model.
RECURSIVE shlex_scan(_, _, _, _, _)
shlex_scan(s, quote, token, in_token, tokens) ==
    IF s = <<>>
    THEN IF quote # ""
         THEN [Invalid("No closing quotation") EXCEPT !.exc = "ValueError"]
         ELSE Valid(IF in_token THEN Append(tokens, token) ELSE tokens)
    ELSE LET c == Head(s) IN
         IF quote # ""
         THEN IF c = quote
              THEN shlex_scan(Tail(s), "", token, TRUE, tokens)
              ELSE shlex_scan(Tail(s), quote, Append(token, c), TRUE, tokens)
         ELSE IF c \in {"\"", "'"}
         THEN shlex_scan(Tail(s), c, token, TRUE, tokens)
         ELSE IF c \in Whitespace
         THEN shlex_scan(Tail(s), "", <<>>, FALSE,
                         IF in_token THEN Append(tokens, token) ELSE tokens)
         ELSE shlex_scan(Tail(s), "", Append(token, c), TRUE, tokens)

shlex_split(line) == shlex_scan(line, "", <<>>, FALSE, <<>>)

\* int(str): the decimal digits, single underscores between them, a sign
\* before them and whitespace around them; anything else is a ValueError.
int(s) ==
    LET stripped == strip(s)
        signed == stripped # <<>> /\ Head(stripped) \in {"+", "-"}
        body == IF signed THEN Tail(stripped) ELSE stripped
        digits == SelectSeq(body, LAMBDA c : c # "_")
    IN IF /\ body # <<>>
          /\ \A i \in DOMAIN body :
                \/ body[i] \in Digits
                \/ /\ body[i] = "_"
                   /\ 1 < i /\ i < Len(body)
                   /\ body[i - 1] \in Digits
                   /\ body[i + 1] \in Digits
       THEN Valid(IF signed /\ Head(stripped) = "-"
                  THEN 0 - Number(digits)
                  ELSE Number(digits))
       ELSE [Invalid("") EXCEPT !.exc = "ValueError"]

\* One line printed to the output stream: what it says and the id or the
\* count it names.
Printed(message, about) == [error |-> FALSE, message |-> message, about |-> about]

\* A line "Error: ..." printed to the output stream.
Error(message, about) == [error |-> TRUE, message |-> message, about |-> about]

_parse_id(args) ==
    IF args = <<>>
    THEN [Invalid("Task ID is required") EXCEPT !.exc = "printed"]
    ELSE IF int(args[1]).exc # ""
    THEN [Invalid("is not a valid task ID") EXCEPT !.exc = "printed"]
    ELSE int(args[1])

RECURSIVE parse_options_from(_, _, _)
parse_options_from(args, i, opts) ==
    IF i > Len(args) THEN opts
    ELSE IF startswith(args[i], <<"-", "-">>)
    THEN LET key == SubSeq(args[i], 3, Len(args[i])) IN
         IF i + 1 <= Len(args) /\ ~startswith(args[i + 1], <<"-">>)
         THEN parse_options_from(args, i + 2, SetItem(opts, key, args[i + 1]))
         ELSE parse_options_from(args, i + 1, SetItem(opts, key, <<>>))
    ELSE IF startswith(args[i], <<"-">>) /\ Len(args[i]) = 2
    THEN parse_options_from(args, i + 1, SetItem(opts, Tail(args[i]), <<>>))
    ELSE parse_options_from(args, i + 1, opts)

_parse_options(args) == parse_options_from(args, 1, <<>>)

RECURSIVE non_option_args_from(_, _, _)
non_option_args_from(args, i, found) ==
    IF i > Len(args) THEN found
    ELSE IF startswith(args[i], <<"-", "-">>)
    THEN IF i + 1 <= Len(args) /\ ~startswith(args[i + 1], <<"-">>)
         THEN non_option_args_from(args, i + 2, found)
         ELSE non_option_args_from(args, i + 1, found)
    ELSE IF startswith(args[i], <<"-">>) /\ Len(args[i]) = 2
    THEN non_option_args_from(args, i + 1, found)
    ELSE non_option_args_from(args, i + 1, Append(found, args[i]))

_get_non_option_args(args) == non_option_args_from(args, 1, <<>>)

\* What a handler leaves behind: the repository and the result of the last
\* service call (r), the lines printed, the number of input lines the
\* prompts read, whether a prompt met the end of the input, the exception
\* raised ("" when none), and whether the loop is to end.
Outcome(r, out, read, exc) ==
    [tasks |-> r.tasks, next_id |-> r.next_id, ret |-> r.ret, out |-> out,
     read |-> read, eof |-> FALSE, exc |-> exc, exit |-> FALSE]

\* prompt: of the first n prompts, how many are answered by the lines of
\* answers before one of them meets an interrupt or the end of the input.
Answered(answers, n) ==
    LET cancelled == {i \in 1 .. n : i > Len(answers) \/ answers[i] = KeyboardInterrupt}
    IN IF cancelled = {} THEN n
       ELSE (CHOOSE i \in cancelled : \A j \in cancelled : i <= j) - 1

\* prompt: PromptCancelled raised by the prompt after the first `asked`,
\* every prompt so far having printed its message.
PromptCancelled(r, out, answers, asked) ==
    [Outcome(r, out, IF asked < Len(answers) THEN asked + 1 ELSE asked,
             "PromptCancelled")
        EXCEPT !.eof = asked >= Len(answers)]

\* prompt: the line read, without its newline.
prompt(answers, i) == rstrip_newline(answers[i])

\* The service call r raised: the handler ends with its exception.
Raises(r, out, read) == Outcome(r, out, read, r.ret.exc)

cmd_add(r, args, answers) ==
    LET opts == _parse_options(args)
        non_option_args == _get_non_option_args(args)
        guided == non_option_args = <<>>
        asked == IF guided THEN <<Printed("Title: ", 0)>> ELSE <<>>
        read == IF guided THEN 1 ELSE 0
        title == IF guided THEN strip(prompt(answers, 1)) ELSE non_option_args[1]
        added == add_task(r, 1, title, DictGet(opts, s_due, None),
                          DictGet(opts, s_priority, None), DictGet(opts, s_tag, None))
    IN IF guided /\ Answered(answers, 1) = 0
       THEN PromptCancelled(r, asked, answers, 0)
       ELSE IF guided /\ title = <<>>
       THEN Raises(Raised("cmd_add", r, Invalid("Title cannot be empty")), asked, read)
       ELSE IF added.ret.exc # "" THEN Raises(added, asked, read)
       ELSE Outcome(added, Append(asked, Printed("Added task", added.ret.task)), read, "")

cmd_list(r, args, answers) ==
    LET opts == _parse_options(args)
        status == DictGet(opts, s_status, s_all)
        sort == DictGet(opts, s_sort, s_created)
        listed == list_tasks(r, status, DictGet(opts, s_tag, None), sort)
    IN IF status \notin {s_all, s_open, s_done}
       THEN Outcome(r, <<Error("Invalid status", 0)>>, 0, "")
       ELSE IF sort \notin {s_created, s_due, s_priority}
       THEN Outcome(r, <<Error("Invalid sort", 0)>>, 0, "")
       ELSE IF listed.ret.exc # "" THEN Raises(listed, <<>>, 0)
       ELSE Outcome(listed, <<Printed("tasks", Len(listed.ret.list))>>, 0, "")

\* cmd_show, cmd_done and cmd_reopen: the id is parsed, the service is
\* called, and a line about the task is printed.
OnTask(r, args, called, message) ==
    LET task_id == _parse_id(args)
    IN IF task_id.exc # ""
       THEN Outcome(r, <<Error(task_id.message, 0)>>, 0, "")
       ELSE IF called.ret.exc # "" THEN Raises(called, <<>>, 0)
       ELSE Outcome(called, <<Printed(message, called.ret.task)>>, 0, "")

cmd_show(r, args, answers) ==
    OnTask(r, args, get_task(r, _parse_id(args).value), "Task #")

cmd_done(r, args, answers) ==
    OnTask(r, args, mark_done(r, _parse_id(args).value), "Marked task as done")

cmd_reopen(r, args, answers) ==
    OnTask(r, args, reopen_task(r, _parse_id(args).value), "Reopened task")

\* Guided, were an empty answer to clear the field as the answer none does.
Guided_empty_clears(opts, task, new_title, new_due, new_priority, new_tags) ==
    LET titled == SetItem(opts, s_title, IF new_title # <<>> THEN new_title ELSE None)
        dated ==
            IF new_due \notin {<<>>, s_none} THEN SetItem(titled, s_due, new_due)
            ELSE IF task.due_date # None THEN SetItem(titled, s_due, None)
            ELSE titled
        ranked ==
            IF new_priority \notin {<<>>, s_none}
            THEN SetItem(dated, s_priority, new_priority)
            ELSE IF task.priority # None THEN SetItem(dated, s_priority, None)
            ELSE dated
    IN IF new_tags \notin {<<>>, s_none} THEN SetItem(ranked, s_tag, new_tags)
       ELSE IF task.tags # <<>> THEN SetItem(ranked, s_tag, <<>>)
       ELSE ranked

\* Guided, were the answer none to the prompt for the tags passed over.
Guided_keeps_tags(opts, task, new_title, new_due, new_priority, new_tags) ==
    LET titled == SetItem(opts, s_title, IF new_title # <<>> THEN new_title ELSE None)
        dated ==
            IF new_due # <<>> /\ new_due # s_none THEN SetItem(titled, s_due, new_due)
            ELSE IF new_due = s_none /\ task.due_date # None
            THEN SetItem(titled, s_due, None)
            ELSE titled
        ranked ==
            IF new_priority # <<>> /\ new_priority # s_none
            THEN SetItem(dated, s_priority, new_priority)
            ELSE IF new_priority = s_none /\ task.priority # None
            THEN SetItem(dated, s_priority, None)
            ELSE dated
    IN IF new_tags # <<>> /\ new_tags # s_none THEN SetItem(ranked, s_tag, new_tags)
       ELSE ranked

\* cmd_update: the options after the four prompts of the guided mode were
\* answered by new_title, new_due, new_priority and new_tags.
Guided(opts, task, new_title, new_due, new_priority, new_tags) ==
    LET titled == SetItem(opts, s_title, IF new_title # <<>> THEN new_title ELSE None)
        dated ==
            IF new_due # <<>> /\ new_due # s_none THEN SetItem(titled, s_due, new_due)
            ELSE IF new_due = s_none /\ task.due_date # None
            THEN SetItem(titled, s_due, None)
            ELSE titled
        ranked ==
            IF new_priority # <<>> /\ new_priority # s_none
            THEN SetItem(dated, s_priority, new_priority)
            ELSE IF new_priority = s_none /\ task.priority # None
            THEN SetItem(dated, s_priority, None)
            ELSE dated
    IN IF new_tags # <<>> /\ new_tags # s_none THEN SetItem(ranked, s_tag, new_tags)
       ELSE IF new_tags = s_none /\ task.tags # <<>>
       THEN SetItem(ranked, s_tag, <<>>)
       ELSE ranked

\* The messages of the guided mode of cmd_update.
Prompts ==
    <<Printed("Title [..]: ", 0), Printed("Due [..]: ", 0),
      Printed("Priority [..]: ", 0), Printed("Tags [..]: ", 0)>>

cmd_update(r, args, answers) ==
    LET task_id == _parse_id(args)
        given == _parse_options(Tail(args))
        has_update_flags == \E key \in {s_title, s_due, s_priority, s_tag} : key \in Keys(given)
        got == get_task(r, task_id.value)
        asked == Answered(answers, 4)
        out == IF has_update_flags THEN <<>>
               ELSE <<Printed("Current: ", task_id.value)>>
                        \o SubSeq(Prompts, 1, IF asked < 4 THEN asked + 1 ELSE 4)
        read == IF has_update_flags THEN 0 ELSE 4
        opts == IF has_update_flags THEN given
                ELSE Guided(given, GetItem(got.tasks, got.ret.task),
                            strip(prompt(answers, 1)), strip(prompt(answers, 2)),
                            strip(prompt(answers, 3)), strip(prompt(answers, 4)))
        updated == update_task(IF has_update_flags THEN r ELSE got, task_id.value,
                               DictGet(opts, s_title, None),
                               DictGet(opts, s_due, Ellipsis),
                               DictGet(opts, s_priority, Ellipsis),
                               DictGet(opts, s_tag, Ellipsis))
    IN IF task_id.exc # ""
       THEN Outcome(r, <<Error(task_id.message, 0)>>, 0, "")
       ELSE IF ~has_update_flags /\ got.ret.exc # "" THEN Raises(got, <<>>, 0)
       ELSE IF ~has_update_flags /\ asked < 4
       THEN PromptCancelled(got, out, answers, asked)
       ELSE IF updated.ret.exc # "" THEN Raises(updated, out, read)
       ELSE Outcome(updated, Append(out, Printed("Updated task", updated.ret.task)),
                    read, "")

\* confirm: the answer to the prompt, stripped and in lower case, is y or
\* yes; a cancelled prompt is a refusal.
confirm(answers) ==
    /\ Answered(answers, 1) = 1
    /\ lower(strip(prompt(answers, 1))) \in {s_y, s_yes}

\* confirm has refused: "Cancelled." is printed and the handler returns.
Refused(r, message, about, answers) ==
    [Outcome(r, <<Printed(message, about), Printed("Cancelled.", 0)>>,
             IF answers = <<>> THEN 0 ELSE 1, "")
        EXCEPT !.eof = answers = <<>>]

cmd_delete(r, args, answers) ==
    LET task_id == _parse_id(args)
        opts == _parse_options(Tail(args))
        force == s_f \in Keys(opts) \/ s_force \in Keys(opts)
        got == get_task(r, task_id.value)
        asked == IF force THEN <<>> ELSE <<Printed("Delete task? [y/N]: ", task_id.value)>>
        deleted == delete_task(got, task_id.value)
    IN IF task_id.exc # ""
       THEN Outcome(r, <<Error(task_id.message, 0)>>, 0, "")
       ELSE IF got.ret.exc # "" THEN Raises(got, <<>>, 0)
       ELSE IF ~force /\ ~confirm(answers)
       THEN Refused(got, "Delete task? [y/N]: ", task_id.value, answers)
       ELSE IF deleted.ret.exc # "" THEN Raises(deleted, asked, Len(asked))
       ELSE Outcome(deleted, Append(asked, Printed("Deleted task", task_id.value)),
                    Len(asked), "")

cmd_clear(r, args, answers) ==
    LET opts == _parse_options(args)
        force == s_f \in Keys(opts) \/ s_force \in Keys(opts)
        done_tasks == list_tasks(r, s_done, None, s_created)
        count == Len(done_tasks.ret.list)
        asked == IF force THEN <<>> ELSE <<Printed("Clear completed task(s)? [y/N]: ", count)>>
        cleared == service_clear_done(done_tasks)
    IN IF count = 0
       THEN Outcome(done_tasks, <<Printed("No completed tasks to clear.", 0)>>, 0, "")
       ELSE IF ~force /\ ~confirm(answers)
       THEN Refused(done_tasks, "Clear completed task(s)? [y/N]: ", count, answers)
       ELSE Outcome(cleared, Append(asked, Printed("Cleared completed task(s)",
                                                  cleared.ret.count)),
                    Len(asked), "")

\* getattr(self, f"cmd_{cmd}", None)
Handlers ==
    {s_add, s_list, s_show, s_done, s_reopen, s_update, s_delete, s_clear}

handler(cmd, r, args, answers) ==
    CASE cmd = s_add -> cmd_add(r, args, answers)
      [] cmd = s_list -> cmd_list(r, args, answers)
      [] cmd = s_show -> cmd_show(r, args, answers)
      [] cmd = s_done -> cmd_done(r, args, answers)
      [] cmd = s_reopen -> cmd_reopen(r, args, answers)
      [] cmd = s_update -> cmd_update(r, args, answers)
      [] cmd = s_delete -> cmd_delete(r, args, answers)
      [] cmd = s_clear -> cmd_clear(r, args, answers)

\* The except clauses of execute, were TaskNotFoundError not among them.
caught_validation_only(h) ==
    IF h.exc = "ValidationError"
    THEN [h EXCEPT !.exc = "", !.out = Append(@, Error(h.ret.message, 0))]
    ELSE IF h.exc = "PromptCancelled"
    THEN [h EXCEPT !.exc = "", !.out = Append(@, Printed("Cancelled.", 0))]
    ELSE h

\* The except clauses of execute: the message of a ValidationError or of a
\* TaskNotFoundError is printed, "Cancelled." for a cancelled prompt; any
\* other exception goes on to the caller.
caught(h) ==
    IF h.exc = "ValidationError"
    THEN [h EXCEPT !.exc = "", !.out = Append(@, Error(h.ret.message, 0))]
    ELSE IF h.exc = "TaskNotFoundError"
    THEN [h EXCEPT !.exc = "", !.out = Append(@, Error("Task not found", h.ret.task_id))]
    ELSE IF h.exc = "PromptCancelled"
    THEN [h EXCEPT !.exc = "", !.out = Append(@, Printed("Cancelled.", 0))]
    ELSE h

\* execute: the first word in lower case, its alias resolved.
command(tokens) == DictGet(ALIASES, lower(Head(tokens)), lower(Head(tokens)))

execute(r, line, answers) ==
    LET tokens == shlex_split(line)
        cmd == command(tokens.value)
        args == Tail(tokens.value)
    IN IF tokens.exc # ""
       THEN Outcome(r, <<Error("Invalid input", 0)>>, 0, "")
       ELSE IF tokens.value = <<>> THEN Outcome(r, <<>>, 0, "")
       ELSE IF cmd \in {s_quit, s_exit}
       THEN [Outcome(r, <<Printed("Goodbye!", 0)>>, 0, "") EXCEPT !.exit = TRUE]
       ELSE IF cmd = s_help THEN Outcome(r, <<Printed("Commands:", 0)>>, 0, "")
       ELSE IF cmd \notin Handlers
       THEN Outcome(r, <<Printed("Unknown command", 0)>>, 0, "")
       ELSE caught(handler(cmd, r, args, answers))

\* ----------------------------------------------------------------- actions
Here == Repo(_tasks, _next_id, result)

Becomes(r) ==
    /\ _tasks' = r.tasks
    /\ _next_id' = r.next_id
    /\ result' = r.ret
    /\ UNCHANGED <<call, shell>>

\* The ids of the tasks created so far, in the order of their creation.
Created(r) ==
    IF r.ret.exc = "" /\ r.ret.op \in {"add", "add_task"}
    THEN Append(created, GetItem(r.tasks, r.ret.task).id)
    ELSE created

\* No validation function was applied yet.
NoCall == [fn |-> "", arg |-> <<>>, ret |-> Valid(<<>>), times |-> 0]

\* The interactive loop is not running.
NoShell ==
    [state |-> "", line |-> <<>>, answers |-> <<>>, out |-> <<>>, eof |-> FALSE,
     exit |-> FALSE]

Init ==
    /\ _tasks = <<>>
    /\ _next_id = 1
    /\ result = NoResult
    /\ created = <<>>
    /\ call = NoCall
    /\ shell = NoShell

Add(title, created_at, due_date, priority, tags) ==
    LET r == add(Here, title, created_at, due_date, priority, tags)
    IN /\ Becomes(r)
       /\ created' = Created(r)

Get(task_id) ==
    LET r == get(Here, task_id)
    IN /\ Becomes(r)
       /\ created' = Created(r)

Update(task_id, title, status, due_date, priority, tags) ==
    LET r == update(Here, task_id, title, status, due_date, priority, tags)
    IN /\ Becomes(r)
       /\ created' = Created(r)

Delete(task_id) ==
    LET r == delete(Here, task_id)
    IN /\ Becomes(r)
       /\ created' = Created(r)

ClearDone ==
    LET r == clear_done(Here)
    IN /\ Becomes(r)
       /\ created' = Created(r)

ListAll(status, tag, sort) ==
    LET r == list_all(Here, status, tag, sort)
    IN /\ Becomes(r)
       /\ created' = Created(r)

AddTask(now, title, due, priority, tags) ==
    LET r == add_task(Here, now, title, due, priority, tags)
    IN /\ Becomes(r)
       /\ created' = Created(r)

GetTask(task_id) ==
    LET r == get_task(Here, task_id)
    IN /\ Becomes(r)
       /\ created' = Created(r)

ListTasks(status, tag, sort) ==
    LET r == list_tasks(Here, status, tag, sort)
    IN /\ Becomes(r)
       /\ created' = Created(r)

MarkDone(task_id) ==
    LET r == mark_done(Here, task_id)
    IN /\ Becomes(r)
       /\ created' = Created(r)

ReopenTask(task_id) ==
    LET r == reopen_task(Here, task_id)
    IN /\ Becomes(r)
       /\ created' = Created(r)

UpdateTask(task_id, title, due, priority, tags) ==
    LET r == update_task(Here, task_id, title, due, priority, tags)
    IN /\ Becomes(r)
       /\ created' = Created(r)

DeleteTask(task_id) ==
    LET r == delete_task(Here, task_id)
    IN /\ Becomes(r)
       /\ created' = Created(r)

ServiceClearDone ==
    LET r == service_clear_done(Here)
    IN /\ Becomes(r)
       /\ created' = Created(r)

\* ------------------------------------------------------------------ inputs
D1 == <<2025, 1, 15>>
D2 == <<2025, 12, 31>>
Statuses == {s_open, s_done}
StatusFilters == {s_all, s_open, s_done}
SortFields == {s_created, s_due, s_priority}
Times == {1, 2}

r_D1 == <<"2", "0", "2", "5", "-", "0", "1", "-", "1", "5">>
r_Feb30 == <<"2", "0", "2", "5", "-", "0", "2", "-", "3", "0">>
r_invalid == <<"i", "n", "v", "a", "l", "i", "d">>
r_urgent == <<"u", "r", "g", "e", "n", "t">>
r_HIGH == <<"H", "I", "G", "H">>

\* --------------------------------------------------------------------- Spec
\* The life cycle of tasks: creation, status changes, removal, queries.
TaskIds == 1 .. (MaxCreates + 1)
LifeStatuses == {None, s_open, s_done}
LifeTitles == {None, <<"a", " ">>, <<>>}
LifeDueDates == {Ellipsis, r_invalid}
LifePriorities == {Ellipsis, r_HIGH}

DoAdd ==
    /\ _next_id <= MaxCreates
    /\ \E created_at \in Times : Add(<<"a">>, created_at, None, None, NoneList)

DoGet == \E task_id \in TaskIds : Get(task_id)

DoUpdate ==
    \E task_id \in TaskIds, status \in LifeStatuses :
        Update(task_id, None, status, Ellipsis, Ellipsis, EllipsisList)

DoDelete == \E task_id \in TaskIds : Delete(task_id)

DoListAll ==
    \E status \in StatusFilters, sort \in SortFields : ListAll(status, None, sort)

DoAddTask ==
    /\ _next_id <= MaxCreates
    /\ \E now \in Times, title \in {<<" ", "a">>, <<" ">>},
          due \in {None, r_Feb30}, priority \in {None, r_urgent} :
        AddTask(now, title, due, priority, None)

DoGetTask == \E task_id \in TaskIds : GetTask(task_id)

DoListTasks ==
    \E status \in StatusFilters, sort \in SortFields : ListTasks(status, None, sort)

DoMarkDone == \E task_id \in TaskIds : MarkDone(task_id)

DoReopenTask == \E task_id \in TaskIds : ReopenTask(task_id)

DoUpdateTask ==
    \E task_id \in TaskIds, title \in LifeTitles, due \in LifeDueDates,
       priority \in LifePriorities :
        UpdateTask(task_id, title, due, priority, Ellipsis)

DoDeleteTask == \E task_id \in TaskIds : DeleteTask(task_id)

Next ==
    \/ DoAdd
    \/ DoGet
    \/ DoUpdate
    \/ DoDelete
    \/ ClearDone
    \/ DoListAll
    \/ DoAddTask
    \/ DoGetTask
    \/ DoListTasks
    \/ DoMarkDone
    \/ DoReopenTask
    \/ DoUpdateTask
    \/ DoDeleteTask
    \/ ServiceClearDone

Spec == Init /\ [][Next]_vars

\* ---------------------------------------------------------------- FieldSpec
\* The fields of a task under update: every task is created with a due date,
\* a priority and a tag; update and update_task are called with each of
\* due_date, priority and tags not provided, cleared or set, with and without
\* title and status, and with each kind of invalid input. The calls are of
\* the first MaxFieldTasks tasks; one more task is created and stands by.
FieldIds == 1 .. MaxFieldTasks
FieldTitles == {None, <<"b">>}
FieldStatuses == {None, s_done}
FieldDueDates == {Ellipsis, None, D1}
FieldPriorities == {Ellipsis, None, s_high}
FieldTags == {EllipsisList, NoneList, <<<<"x">>>>}

\* <<title, status, due_date, priority, tags>> of a call of update: the
\* calls a property is stated of.
UpdateArgs ==
    {a \in FieldTitles \X FieldStatuses \X FieldDueDates \X FieldPriorities
           \X FieldTags :
        \/ a[1] = None /\ a[2] = None
        \/ a[3] = Ellipsis /\ a[4] = Ellipsis /\ a[5] = EllipsisList
        \/ a[3] = None /\ a[4] = None /\ a[5] = NoneList
        \/ a[3] = D1 /\ a[4] = s_high /\ a[5] = <<<<"x">>>>}

RawTitles == {None, <<"b", " ">>, <<" ">>}
RawDueDates == {Ellipsis, None, r_D1, r_Feb30}
RawPriorities == {Ellipsis, None, s_high, r_urgent}
RawTags == {Ellipsis, None, <<"x", ",">>}

\* <<title, due, priority, tags>> of a call of update_task: the calls a
\* property is stated of.
UpdateTaskArgs ==
    {a \in RawTitles \X RawDueDates \X RawPriorities \X RawTags :
        \/ a[1] = None /\ a[2] # r_Feb30 /\ a[3] # r_urgent
        \/ a[2] = Ellipsis /\ a[3] = Ellipsis /\ a[4] = Ellipsis
        \/ a[2] = r_D1 /\ a[3] = s_high /\ a[4] = <<"x", ",">>
        \/ a[2] = r_Feb30 /\ a[3] \in {Ellipsis, s_high} /\ a[4] = Ellipsis
        \/ a[2] \in {Ellipsis, r_D1} /\ a[3] = r_urgent /\ a[4] = Ellipsis}

\* The calls of update made: nothing provided, the title alone, the status
\* alone, the three optional fields set, cleared, and the due date alone
\* cleared.
UpdateCalls ==
    {<<None, None, Ellipsis, Ellipsis, EllipsisList>>,
     <<(<<"b">>), None, Ellipsis, Ellipsis, EllipsisList>>,
     <<None, s_done, Ellipsis, Ellipsis, EllipsisList>>,
     <<None, None, D1, s_high, <<(<<"x">>)>> >>,
     <<None, None, None, Ellipsis, EllipsisList>>,
     <<None, None, None, None, NoneList>>}

\* The calls of update_task made: nothing provided, a title alone, the three
\* optional fields cleared, set, and one invalid field of each kind, alone
\* and next to valid ones.
UpdateTaskCalls ==
    {<<None, Ellipsis, Ellipsis, Ellipsis>>,
     <<(<<"b", " ">>), Ellipsis, Ellipsis, Ellipsis>>,
     <<None, None, None, None>>,
     <<None, r_D1, s_high, (<<"x", ",">>)>>,
     <<(<<" ">>), Ellipsis, Ellipsis, Ellipsis>>,
     <<None, r_Feb30, Ellipsis, Ellipsis>>,
     <<None, Ellipsis, r_urgent, Ellipsis>>,
     <<(<<"b", " ">>), r_Feb30, s_high, Ellipsis>>}

\* <<title, due, priority, tags>> of a call of add_task.
AddTaskArgs ==
    {<<"a">>, <<>>} \X {r_D1, r_invalid} \X {s_high, r_HIGH} \X {<<"x">>}

FieldAdd ==
    /\ _next_id <= MaxFieldTasks + 1
    /\ Add(<<"a">>, 1, D1, s_high, <<<<"x">>>>)

FieldAddTask ==
    /\ _next_id <= MaxFieldTasks + 1
    /\ \E a \in AddTaskArgs : AddTask(1, a[1], a[2], a[3], a[4])

FieldUpdate ==
    \E task_id \in FieldIds, a \in UpdateCalls :
        Update(task_id, a[1], a[2], a[3], a[4], a[5])

FieldUpdateTask ==
    \E task_id \in FieldIds, a \in UpdateTaskCalls :
        UpdateTask(task_id, a[1], a[2], a[3], a[4])

FieldNext ==
    \/ FieldAdd
    \/ FieldAddTask
    \/ FieldUpdate
    \/ FieldUpdateTask

FieldSpec == Init /\ [][FieldNext]_vars

\* ----------------------------------------------------------------- SortSpec
\* Tasks with every due date and every priority, listed in every order.
SortIds == 1 .. (MaxSorted + 1)
SortDueDates == {None, D1, D2}
SortPriorities == {None, s_low, s_med, s_high}

\* <<due_date, priority>> of a call of add.
SortArgs ==
    {a \in SortDueDates \X SortPriorities :
        a[1] = None \/ a[2] = None \/ a = <<D1, s_high>>}

SortAdd ==
    /\ _next_id <= MaxSorted
    /\ \E a \in SortArgs : Add(<<"a">>, 1, a[1], a[2], NoneList)

SortDelete == \E task_id \in SortIds : Delete(task_id)

SortListAll == \E sort \in SortFields : ListAll(s_all, None, sort)

SortNext ==
    \/ SortAdd
    \/ SortDelete
    \/ SortListAll

SortSpec == Init /\ [][SortNext]_vars

\* ---------------------------------------------------------------- AliasSpec
\* The caller keeps the Task objects it is handed and assigns to their
\* attributes: add, get and update return the stored object itself, list_all
\* a new list of the stored objects, and add and update store the caller's
\* own tags list when it is not empty.
AliasIds == 1 .. (MaxAliased + 1)

\* The Task references the last call returned.
Returned == ({result.task} \ {0}) \cup {result.list[i] : i \in DOMAIN result.list}

\* task.title = "z"
SetTitle(ref) ==
    /\ ref \in Returned \cap Keys(_tasks)
    /\ _tasks' = SetItem(_tasks, ref, [GetItem(_tasks, ref) EXCEPT !.title = <<"z">>])
    /\ UNCHANGED <<_next_id, result, created, call, shell>>

\* task.status = "done"
SetStatus(ref) ==
    /\ ref \in Returned \cap Keys(_tasks)
    /\ _tasks' = SetItem(_tasks, ref, [GetItem(_tasks, ref) EXCEPT !.status = s_done])
    /\ UNCHANGED <<_next_id, result, created, call, shell>>

\* task.tags.append("z"), or the same on the list that was passed in
AppendTag(ref) ==
    /\ ref \in Returned \cap Keys(_tasks)
    /\ Len(GetItem(_tasks, ref).tags) < 2
    /\ _tasks' = SetItem(_tasks, ref,
                         [GetItem(_tasks, ref) EXCEPT !.tags = Append(@, <<"z">>)])
    /\ UNCHANGED <<_next_id, result, created, call, shell>>

CallerMutates == \E ref \in AliasIds : SetTitle(ref) \/ SetStatus(ref) \/ AppendTag(ref)

AliasAdd ==
    /\ _next_id <= MaxAliased
    /\ \E tags \in {NoneList, <<<<"x">>>>} : Add(<<"a">>, 1, None, None, tags)

AliasGet == \E task_id \in AliasIds : Get(task_id)

AliasUpdate ==
    \E task_id \in AliasIds :
        Update(task_id, <<"b">>, None, Ellipsis, Ellipsis, EllipsisList)

AliasListAll == \E status \in StatusFilters : ListAll(status, None, s_created)

AliasNext ==
    \/ AliasAdd
    \/ AliasGet
    \/ AliasUpdate
    \/ AliasListAll
    \/ CallerMutates

AliasSpec == Init /\ [][AliasNext]_vars

\* ---------------------------------------------------------------- OrderSpec
\* Tasks whose sort keys come about in different ways: a due date, a
\* priority and a status are given at creation or by a later update, the due
\* date taken away again; lists are taken under every status filter and sort.
OrderIds == 1 .. (MaxOrdered + 1)

\* <<created_at, due_date, priority>> of a call of add.
OrderArgs == {<<2, None, None>>, <<1, D1, s_high>>}

\* <<status, due_date, priority>> of a call of update.
OrderCalls ==
    {<<s_done, Ellipsis, Ellipsis>>,
     <<None, D1, Ellipsis>>,
     <<None, None, Ellipsis>>,
     <<None, Ellipsis, s_high>>}

OrderAdd ==
    /\ _next_id <= MaxOrdered
    /\ \E a \in OrderArgs : Add(<<"a">>, a[1], a[2], a[3], NoneList)

OrderUpdate ==
    \E task_id \in OrderIds, a \in OrderCalls :
        Update(task_id, None, a[1], a[2], a[3], EllipsisList)

OrderDelete == \E task_id \in OrderIds : Delete(task_id)

OrderListAll ==
    \E status \in StatusFilters, sort \in SortFields : ListAll(status, None, sort)

OrderNext ==
    \/ OrderAdd
    \/ OrderUpdate
    \/ OrderDelete
    \/ OrderListAll

OrderSpec == Init /\ [][OrderNext]_vars

\* ------------------------------------------------------------------ TagSpec
\* Tasks with tags in either case: "X", "x" next to "y", and "xy", marked
\* done and reopened; lists are taken with no tag filter and with the
\* filters "x", "XY" and "".
TagIds == 1 .. (MaxTagged + 1)

TagLists ==
    {NoneList, <<(<<"X">>)>>, <<(<<"x">>), (<<"y">>)>>, <<(<<"x", "y">>)>>}

TagFilters == {None, <<"x">>, <<"X", "Y">>, <<>>}

TagAdd ==
    /\ _next_id <= MaxTagged
    /\ \E tags \in TagLists : Add(<<"a">>, 1, None, None, tags)

TagMarkDone == \E task_id \in TagIds : MarkDone(task_id)

TagReopenTask == \E task_id \in TagIds : ReopenTask(task_id)

TagListAll ==
    \E status \in StatusFilters, tag \in TagFilters :
        ListAll(status, tag, s_created)

TagListTasks ==
    \E status \in StatusFilters, tag \in TagFilters :
        ListTasks(status, tag, s_created)

TagNext ==
    \/ TagAdd
    \/ TagMarkDone
    \/ TagReopenTask
    \/ TagListAll
    \/ TagListTasks

TagSpec == Init /\ [][TagNext]_vars

\* ----------------------------------------------------------------- StepSpec
\* One call after another on few tasks, for what a call leaves as it was:
\* tasks created at either time are renamed, marked done, reopened, deleted,
\* cleared and listed, and created again after a removal.
StepIds == 1 .. (MaxStepTasks + 1)

StepAdd ==
    /\ _next_id <= MaxStepTasks
    /\ \E created_at \in Times : Add(<<"a">>, created_at, None, None, NoneList)

StepAddTask ==
    /\ _next_id <= MaxStepTasks
    /\ \E title \in {<<"c">>, <<" ">>} : AddTask(1, title, None, None, None)

StepGet == \E task_id \in StepIds : Get(task_id)

StepUpdate ==
    \E task_id \in StepIds :
        Update(task_id, <<"b">>, s_done, Ellipsis, Ellipsis, EllipsisList)

StepUpdateTask ==
    \E task_id \in StepIds :
        UpdateTask(task_id, <<"b", " ">>, Ellipsis, Ellipsis, Ellipsis)

StepMarkDone == \E task_id \in StepIds : MarkDone(task_id)

StepReopenTask == \E task_id \in StepIds : ReopenTask(task_id)

StepDelete == \E task_id \in StepIds : Delete(task_id)

StepListAll == \E status \in StatusFilters : ListAll(status, None, s_created)

StepNext ==
    \/ StepAdd
    \/ StepAddTask
    \/ StepGet
    \/ StepUpdate
    \/ StepUpdateTask
    \/ StepMarkDone
    \/ StepReopenTask
    \/ StepDelete
    \/ ClearDone
    \/ StepListAll

StepSpec == Init /\ [][StepNext]_vars

\* ----------------------------------------------------------- ValidationSpec
\* The validation functions applied to every string of at most MaxLen of the
\* characters a, b, blank and comma, and parse_tags to None as well;
\* validate_title is applied once more to what it returned.
Alphabet == {"a", "b", " ", ","}

Strings == UNION {[1 .. n -> Alphabet] : n \in 0 .. MaxLen}

ValidationInit ==
    /\ _tasks = <<>>
    /\ _next_id = 1
    /\ result = NoResult
    /\ created = <<>>
    /\ shell = NoShell
    /\ \E arg \in Strings \cup {None} : call = [NoCall EXCEPT !.arg = arg]

\* ret: what the function returned or raised; times: how often it was
\* applied, each time after the first to what it returned before.
ValidateTitle ==
    /\ call.fn = ""
    /\ call.arg # None
    /\ call' = [fn |-> "validate_title", arg |-> call.arg,
                ret |-> validate_title(call.arg), times |-> 1]
    /\ UNCHANGED <<_tasks, _next_id, result, created, shell>>

ValidateTitleAgain ==
    /\ call.fn = "validate_title"
    /\ call.times = 1
    /\ call.ret.exc = ""
    /\ call' = [call EXCEPT !.ret = validate_title(call.ret.value), !.times = 2]
    /\ UNCHANGED <<_tasks, _next_id, result, created, shell>>

ParseTags ==
    /\ call.fn = ""
    /\ call' = [fn |-> "parse_tags", arg |-> call.arg,
                ret |-> Valid(parse_tags(call.arg)), times |-> 1]
    /\ UNCHANGED <<_tasks, _next_id, result, created, shell>>

ValidationNext ==
    \/ ValidateTitle
    \/ ValidateTitleAgain
    \/ ParseTags

ValidationSpec == ValidationInit /\ [][ValidationNext]_vars

\* -------------------------------------------------------------- ServiceSpec
\* The service layer alone, given raw text: titles with whitespace around
\* them or nothing else, dates that are none, priorities in the wrong case or
\* unknown, ids that are stored and ids that are not.
ServedIds == 0 .. (MaxServed + 1)

\* <<title, due, priority, tags>> of a call of add_task.
ServedAdds ==
    {<<(<<" ", "a">>), None, None, None>>,
     <<(<<"a", " ", "b", " ">>), r_D1, s_high, (<<"x", ",">>)>>,
     <<(<<"\t">>), None, None, None>>,
     <<(<<"a">>), r_Feb30, None, None>>,
     <<(<<"a">>), None, r_HIGH, None>>,
     <<(<<"a">>), None, r_urgent, None>>}

\* <<title, due, priority, tags>> of a call of update_task.
ServedUpdates ==
    {<<(<<" ", "b">>), Ellipsis, Ellipsis, Ellipsis>>,
     <<None, Ellipsis, s_low, Ellipsis>>,
     <<(<<>>), Ellipsis, Ellipsis, Ellipsis>>,
     <<None, r_invalid, Ellipsis, Ellipsis>>,
     <<None, Ellipsis, r_HIGH, Ellipsis>>}

ServiceAddTask ==
    /\ _next_id <= MaxServed
    /\ \E a \in ServedAdds : AddTask(1, a[1], a[2], a[3], a[4])

ServiceGetTask == \E task_id \in ServedIds : GetTask(task_id)

ServiceListTasks ==
    \E status \in StatusFilters, sort \in SortFields : ListTasks(status, None, sort)

ServiceMarkDone == \E task_id \in ServedIds : MarkDone(task_id)

ServiceReopenTask == \E task_id \in ServedIds : ReopenTask(task_id)

ServiceUpdateTask ==
    \E task_id \in ServedIds, a \in ServedUpdates :
        UpdateTask(task_id, a[1], a[2], a[3], a[4])

ServiceDeleteTask == \E task_id \in ServedIds : DeleteTask(task_id)

ServiceNext ==
    \/ ServiceAddTask
    \/ ServiceGetTask
    \/ ServiceListTasks
    \/ ServiceMarkDone
    \/ ServiceReopenTask
    \/ ServiceUpdateTask
    \/ ServiceDeleteTask
    \/ ServiceClearDone

ServiceSpec == Init /\ [][ServiceNext]_vars

\* ---------------------------------------------------------------- ShellSpec
\* An interactive session on an input stream: a line is read, then executed,
\* its prompts reading the lines that follow it.

\* Command lines.
l_add == <<"a", "d", "d", " ", "a">>
l_add_all == <<"a", " ", "a", " ", "-", "-", "d", "u", "e", " ", "2", "0", "2", "5", "-", "0", "1", "-", "1", "5", " ", "-", "-", "p", "r", "i", "o", "r", "i", "t", "y", " ", "h", "i", "g", "h", " ", "-", "-", "t", "a", "g", " ", "x">>
l_add_guided == <<"a", "d", "d">>
l_add_urgent == <<"a", "d", "d", " ", "a", " ", "-", "-", "p", "r", "i", "o", "r", "i", "t", "y", " ", "u", "r", "g", "e", "n", "t">>
l_delete == <<"d", "e", "l", "e", "t", "e", " ", "1">>
l_rm == <<"r", "m", " ", "1">>
l_delete_f == <<"d", " ", "1", " ", "-", "f">>
l_delete_force == <<"d", "e", "l", "e", "t", "e", " ", "1", " ", "-", "-", "f", "o", "r", "c", "e">>
l_delete_ff == <<"d", "e", "l", "e", "t", "e", " ", "1", " ", "-", "-", "f">>
l_delete_2 == <<"D", "E", "L", "E", "T", "E", " ", "2">>
l_delete_x == <<"d", "e", "l", "e", "t", "e", " ", "x">>
l_delete_none == <<"d", "e", "l", "e", "t", "e">>
l_update == <<"u", "p", "d", "a", "t", "e", " ", "1">>
l_update_status == <<"u", " ", "1", " ", "-", "-", "s", "t", "a", "t", "u", "s", " ", "d", "o", "n", "e">>
l_update_2 == <<"u", "p", "d", "a", "t", "e", " ", "2">>
l_update_title == <<"u", "p", "d", "a", "t", "e", " ", "1", " ", "-", "-", "t", "i", "t", "l", "e", " ", "b">>
l_done == <<"x", " ", "1">>
l_reopen == <<"o", " ", "1">>
l_clear == <<"c", "l", "e", "a", "r">>
l_show == <<"s", "h", "o", "w", " ", "1">>
l_list == <<"l", "s">>
l_list_bad == <<"l", "i", "s", "t", " ", "-", "-", "s", "t", "a", "t", "u", "s", " ", "b", "a", "d">>
l_bogus == <<"b", "o", "g", "u", "s">>
l_open_quote == <<"a", "d", "d", " ", "'", "a">>
l_help == <<"?">>
l_quit == <<"q", "u", "i", "t">>
l_q == <<"Q">>
l_exit == <<"e", "x", "i", "t">>

Lines ==
    {l_add, l_add_all, l_add_guided, l_add_urgent, l_delete, l_rm, l_delete_f,
     l_delete_force, l_delete_ff, l_delete_2, l_delete_x, l_delete_none,
     l_update, l_update_status, l_update_2, l_update_title, l_done, l_reopen,
     l_clear, l_show, l_list,
     l_list_bad, l_bogus, l_open_quote, l_help, l_quit, l_q, l_exit}

\* A line as readline returns it.
Typed(s) == Append(s, "\n")

\* What readline may return to the loop: a command line, a blank line, a last
\* line without its newline, the end of the input, or an interrupt instead.
Reads ==
    {Typed(l) : l \in Lines}
        \cup {<<" ", "\n">>, <<" ", "q", " ">>, EOF, KeyboardInterrupt}

\* Answers to the four prompts of the guided update.
GuidedAnswers ==
    {<<Typed(<<>>), Typed(<<>>), Typed(<<>>), Typed(<<>>)>>,
     <<Typed(<<"b">>), Typed(<<>>), Typed(<<>>), Typed(<<>>)>>,
     <<Typed(<<>>), Typed(s_none), Typed(<<>>), Typed(<<>>)>>,
     <<Typed(<<>>), Typed(<<>>), Typed(s_none), Typed(s_none)>>,
     <<Typed(<<>>), Typed(s_none), Typed(s_none), Typed(s_none)>>}

\* The lines that follow a command line in the input, up to its end: they
\* answer the prompts of the command, if it has any.
Scripts ==
    GuidedAnswers
        \cup {<<>>, <<Typed(<<>>)>>, <<Typed(<<>>), Typed(s_none)>>,
              <<Typed(<<>>), Typed(s_none), Typed(s_none)>>,
              <<Typed(<<>>), KeyboardInterrupt>>,
              <<Typed(<<>>), Typed(<<"b">>), Typed(<<>>), Typed(<<>>)>>,
              <<Typed(<<" ">>), Typed(<<" ", "n", "o", "n", "e">>), Typed(<<>>),
                Typed(<<"\t">>)>>}
        \cup {<<Typed(s_y)>>, <<Typed(<<" ", "Y", "E", "S", " ">>)>>,
              <<Typed(<<"n">>)>>, <<s_y>>, <<KeyboardInterrupt>>,
              <<Typed(<<"y", "e", "s", " ", "p", "l", "e", "a", "s", "e">>)>>}

\* run, before its loop: the banner is printed.
ShellInit ==
    /\ _tasks = <<>>
    /\ _next_id = 1
    /\ result = NoResult
    /\ created = <<>>
    /\ call = NoCall
    /\ shell = [NoShell EXCEPT !.state = "reading",
                               !.out = <<Printed("Todo Interactive Mode", 0)>>]

\* The line gives the command add.
Adds(line) ==
    /\ shlex_split(line).exc = ""
    /\ shlex_split(line).value # <<>>
    /\ command(shlex_split(line).value) = s_add

\* run: a line is read.  The end of the input ends the loop, an interrupt
\* ends it with "Goodbye!", a blank line is passed over, and any other line,
\* stripped, is to be executed.  (No add is read once MaxShellTasks tasks
\* were created.)
ReadLine ==
    /\ shell.state = "reading"
    /\ \E line \in (IF shell.eof THEN {EOF} ELSE Reads) :
          /\ Adds(strip(line)) => _next_id <= MaxShellTasks
          /\ shell' =
             IF line = EOF
             THEN [NoShell EXCEPT !.state = "ended", !.eof = TRUE]
             ELSE IF line = KeyboardInterrupt
             THEN [NoShell EXCEPT !.state = "ended", !.line = line,
                                  !.out = <<Printed("Goodbye!", 0)>>]
             ELSE IF strip(rstrip_newline(line)) = <<>>
             THEN [NoShell EXCEPT !.state = "reading"]
             ELSE [NoShell EXCEPT !.state = "executing",
                                  !.line = strip(rstrip_newline(line))]
    /\ UNCHANGED <<_tasks, _next_id, result, created, call>>

\* run: the line is executed, its prompts reading the lines that follow it
\* in the input (none, when a command without prompts is given none).  An
\* exception that execute lets through ends the program.
\* run: execute has left the outcome h, its prompts having been offered
\* the lines of answers.
Executed(h, answers) ==
    /\ _tasks' = h.tasks
    /\ _next_id' = h.next_id
    /\ result' = h.ret
    /\ created' = IF h.next_id # _next_id THEN Append(created, h.ret.task) ELSE created
    /\ shell' = [state |-> IF h.exc # "" THEN "crashed" ELSE "executed",
                 line |-> shell.line,
                 answers |-> SubSeq(answers, 1, h.read),
                 out |-> h.out,
                 eof |-> h.eof,
                 exit |-> h.exit]
    /\ UNCHANGED call

Execute ==
    /\ shell.state = "executing"
    /\ \E answers \in (IF execute(Here, shell.line, <<>>).eof THEN Scripts ELSE {<<>>}) :
          Executed(execute(Here, shell.line, answers), answers)

\* run: execute has returned, and what the service returned to the handler
\* is gone with it; the loop ends if execute said so, and reads the next
\* line if not.
Continue ==
    /\ shell.state = "executed"
    /\ shell' = [NoShell EXCEPT !.state = IF shell.exit THEN "ended" ELSE "reading",
                               !.line = IF shell.exit THEN shell.line ELSE <<>>,
                               !.eof = shell.eof]
    /\ result' = NoResult
    /\ UNCHANGED <<_tasks, _next_id, created, call>>

ShellNext ==
    \/ ReadLine
    \/ Execute
    \/ Continue

ShellSpec == ShellInit /\ [][ShellNext]_vars

\* The program runs on: when execute has returned, the loop goes on.
ShellLiveSpec == ShellSpec /\ WF_vars(Continue)

\* ------------------------------------------------------------------- claims
StoredIds == Keys(_tasks)

Stored(task_id) == GetItem(_tasks, task_id)

\* What the validation functions are to accept.
Blank(title) == \A i \in DOMAIN title : title[i] \in Whitespace

GoodTitle(title) == title = None \/ ~Blank(title)

GoodDue(due) == due \in {Ellipsis, None, r_D1}

GoodPriority(priority) == priority \in {Ellipsis, None, s_low, s_med, s_high}

\* C1: the ids returned by successive creates are 1, 2, 3, ...: each create
\* returns the id one greater than the create before it, whatever was deleted
\* or cleared in between, so no id is ever assigned twice.
C1_IdsSequential ==
    /\ \A i \in DOMAIN created : created[i] = i
    /\ (result.op \in {"add", "add_task"} /\ result.exc = "")
          => /\ result.task = Len(created)
             /\ Stored(result.task).id = Len(created)

\* C1: a third create after the first two tasks were removed returns 3.
C1_Witness ==
    /\ result.op = "add"
    /\ created = <<1, 2, 3>>
    /\ StoredIds = {3}

\* C2: update and update_task of a stored task change no field that was not
\* provided, never change id or created_at, and change no other task nor the
\* counter; with no field provided they change nothing at all.
C2_UpdateFrame ==
    \A task_id \in StoredIds :
        /\ \A a \in UpdateArgs :
              LET u == update(Here, task_id, a[1], a[2], a[3], a[4], a[5])
                  old == Stored(task_id)
                  new == GetItem(u.tasks, task_id)
              IN /\ u.ret.exc = ""
                 /\ u.ret.task = task_id
                 /\ u.next_id = _next_id
                 /\ [i \in DOMAIN u.tasks |-> u.tasks[i][1]]
                      = [i \in DOMAIN _tasks |-> _tasks[i][1]]
                 /\ \A k \in StoredIds \ {task_id} : GetItem(u.tasks, k) = Stored(k)
                 /\ new.id = old.id
                 /\ new.created_at = old.created_at
                 /\ a[1] = None => new.title = old.title
                 /\ a[2] = None => new.status = old.status
                 /\ a[3] = Ellipsis => new.due_date = old.due_date
                 /\ a[4] = Ellipsis => new.priority = old.priority
                 /\ a[5] = EllipsisList => new.tags = old.tags
                 /\ a = <<None, None, Ellipsis, Ellipsis, EllipsisList>>
                      => u.tasks = _tasks
        /\ \A a \in UpdateTaskArgs :
              LET u == update_task(Here, task_id, a[1], a[2], a[3], a[4])
                  old == Stored(task_id)
                  new == GetItem(u.tasks, task_id)
              IN /\ u.next_id = _next_id
                 /\ [i \in DOMAIN u.tasks |-> u.tasks[i][1]]
                      = [i \in DOMAIN _tasks |-> _tasks[i][1]]
                 /\ \A k \in StoredIds \ {task_id} : GetItem(u.tasks, k) = Stored(k)
                 /\ new.id = old.id
                 /\ new.created_at = old.created_at
                 /\ new.status = old.status
                 /\ a[1] = None => new.title = old.title
                 /\ a[2] = Ellipsis => new.due_date = old.due_date
                 /\ a[3] = Ellipsis => new.priority = old.priority
                 /\ a[4] = Ellipsis => new.tags = old.tags
                 /\ a = <<None, Ellipsis, Ellipsis, Ellipsis>>
                      => u.ret.exc = "" /\ u.tasks = _tasks

\* C2: an update has left a task with its due date cleared and the priority
\* and tags it was created with.
C2_Witness ==
    /\ result.op = "update"
    /\ result.exc = ""
    /\ Stored(result.task).due_date = None
    /\ Stored(result.task).priority = s_high
    /\ Stored(result.task).tags = <<<<"x">>>>
    /\ Stored(result.task).title = <<"a">>
    /\ Stored(result.task).status = s_open
    /\ \E k \in StoredIds \ {result.task} :
          Stored(k) = Task(k, <<"a">>, s_open, 1, D1, s_high, <<<<"x">>>>)

\* C3: in update and update_task, due_date given as None leaves no due date,
\* priority given as None leaves no priority, tags given as None leave the
\* empty list, while a field that is not provided keeps its stored value.
C3_ExplicitClear ==
    \A task_id \in StoredIds :
        /\ \A a \in UpdateArgs :
              LET u == update(Here, task_id, a[1], a[2], a[3], a[4], a[5])
                  old == Stored(task_id)
                  new == GetItem(u.tasks, task_id)
              IN /\ u.ret.exc = ""
                 /\ new.due_date = IF a[3] = Ellipsis THEN old.due_date
                                   ELSE IF a[3] = None THEN None ELSE a[3]
                 /\ new.priority = IF a[4] = Ellipsis THEN old.priority
                                   ELSE IF a[4] = None THEN None ELSE a[4]
                 /\ new.tags = IF a[5] = EllipsisList THEN old.tags
                               ELSE IF a[5] = NoneList THEN <<>> ELSE a[5]
        /\ \A a \in UpdateTaskArgs :
              (GoodTitle(a[1]) /\ GoodDue(a[2]) /\ GoodPriority(a[3])) =>
              LET u == update_task(Here, task_id, a[1], a[2], a[3], a[4])
                  old == Stored(task_id)
                  new == GetItem(u.tasks, task_id)
              IN /\ u.ret.exc = ""
                 /\ new.due_date = IF a[2] = Ellipsis THEN old.due_date
                                   ELSE IF a[2] = None THEN None ELSE D1
                 /\ new.priority = IF a[3] = Ellipsis THEN old.priority
                                   ELSE IF a[3] = None THEN None ELSE a[3]
                 /\ new.tags = IF a[4] = Ellipsis THEN old.tags
                               ELSE IF a[4] = None THEN <<>> ELSE <<<<"x">>>>

\* C3: update_task has left a task, created with a due date, a priority and
\* a tag, with none of the three.
C3_Witness ==
    /\ result.op = "update_task"
    /\ result.exc = ""
    /\ Stored(result.task).due_date = None
    /\ Stored(result.task).priority = None
    /\ Stored(result.task).tags = <<>>

\* C4: add_task and update_task fail with InvalidInput exactly when a field
\* they are given is invalid, and then leave the tasks and the counter as
\* they were, so that the next add_task is given the id it would have been
\* given without the failed call.
C4_InvalidInputUnchanged ==
    /\ \A a \in AddTaskArgs :
          LET u == add_task(Here, 1, a[1], a[2], a[3], a[4])
              next == add_task(u, 1, <<"a">>, None, None, None)
          IN IF ~Blank(a[1]) /\ GoodDue(a[2]) /\ GoodPriority(a[3])
             THEN u.ret.exc = ""
             ELSE /\ u.ret.exc = "ValidationError"
                  /\ u.tasks = _tasks
                  /\ u.next_id = _next_id
                  /\ next.ret.exc = ""
                  /\ next.ret.task = _next_id
                  /\ GetItem(next.tasks, next.ret.task).id = _next_id
    /\ \A task_id \in FieldIds, a \in UpdateTaskArgs :
          LET u == update_task(Here, task_id, a[1], a[2], a[3], a[4])
          IN IF GoodTitle(a[1]) /\ GoodDue(a[2]) /\ GoodPriority(a[3])
             THEN u.ret.exc # "ValidationError"
             ELSE /\ u.ret.exc = "ValidationError"
                  /\ u.tasks = _tasks
                  /\ u.next_id = _next_id

\* C4: update_task of a stored task has failed on its due date.
C4_Witness ==
    /\ result.op = "update_task"
    /\ result.exc = "ValidationError"
    /\ result.message = "Invalid date format"
    /\ StoredIds = {1}

\* The call r failed with NotFound(task_id) and changed nothing.
NotFoundUnchanged(r, task_id) ==
    /\ r.ret.exc = "TaskNotFoundError"
    /\ r.ret.task_id = task_id
    /\ r.tasks = _tasks
    /\ r.next_id = _next_id

\* C5, as amended: with an id that is not stored, get, update, delete,
\* mark_done and reopen_task fail with NotFound carrying the id; update_task
\* does so when the fields it is given are valid and fails with InvalidInput
\* when one is not; in every case the tasks and the counter are unchanged.
C5_NotFound ==
    \A task_id \in TaskIds \ StoredIds :
        /\ NotFoundUnchanged(get(Here, task_id), task_id)
        /\ \A status \in LifeStatuses :
              NotFoundUnchanged(
                  update(Here, task_id, None, status, Ellipsis, Ellipsis,
                         EllipsisList), task_id)
        /\ NotFoundUnchanged(delete(Here, task_id), task_id)
        /\ NotFoundUnchanged(mark_done(Here, task_id), task_id)
        /\ NotFoundUnchanged(reopen_task(Here, task_id), task_id)
        /\ \A title \in LifeTitles, due \in LifeDueDates,
              priority \in LifePriorities :
              LET u == update_task(Here, task_id, title, due, priority, Ellipsis)
              IN IF GoodTitle(title) /\ GoodDue(due) /\ GoodPriority(priority)
                 THEN NotFoundUnchanged(u, task_id)
                 ELSE /\ u.ret.exc = "ValidationError"
                      /\ u.tasks = _tasks
                      /\ u.next_id = _next_id

\* C5: update_task of a deleted id has failed with NotFound carrying it.
C5_Witness ==
    /\ result.op = "update_task"
    /\ result.exc = "TaskNotFoundError"
    /\ result.task_id = 1
    /\ StoredIds = {2}

\* C5 as stated: each of the six calls, made with an id that is not stored,
\* fails with NotFound carrying the id and leaves tasks and counter unchanged.
C5_Original ==
    [][\A task_id \in TaskIds :
          (/\ task_id \notin StoredIds
           /\ \/ Get(task_id)
              \/ \E status \in LifeStatuses :
                    Update(task_id, None, status, Ellipsis, Ellipsis, EllipsisList)
              \/ Delete(task_id)
              \/ MarkDone(task_id)
              \/ ReopenTask(task_id)
              \/ \E title \in LifeTitles, due \in LifeDueDates,
                    priority \in LifePriorities :
                    UpdateTask(task_id, title, due, priority, Ellipsis))
          => (/\ result'.exc = "TaskNotFoundError"
              /\ result'.task_id = task_id
              /\ UNCHANGED <<_tasks, _next_id>>)]_vars

\* C6: a caller that assigns to a Task it was handed by add, get, update or
\* list_all, or appends to its tags, changes nothing that is stored.
C6_ReturnedTasksAreCopies == [][CallerMutates => _tasks' = _tasks]_vars

DoneIds == {k \in StoredIds : Stored(k).status = s_done}

OpenIds == {k \in StoredIds : Stored(k).status = s_open}

\* C7: clear_done removes every done task and returns how many there were;
\* right after it no list with status done has an element and get of each
\* removed id fails with NotFound.
C7_ClearDone ==
    \A c \in {clear_done(Here), service_clear_done(Here)} :
        /\ c.ret.exc = ""
        /\ c.ret.count = Cardinality(DoneIds)
        /\ Keys(c.tasks) \cap DoneIds = {}
        /\ \A k \in Keys(c.tasks) : GetItem(c.tasks, k).status # s_done
        /\ \A sort \in SortFields : list_all(c, s_done, None, sort).ret.list = <<>>
        /\ \A k \in DoneIds :
              /\ get(c, k).ret.exc = "TaskNotFoundError"
              /\ get(c, k).ret.task_id = k

\* C7: clear_done has removed two done tasks and left an open one.
C7_Witness ==
    /\ result.op = "clear_done"
    /\ result.count = 2
    /\ Len(_tasks) = 1
    /\ DoneIds = {}

\* The elements of list that are in set, in the order of list.
Only(list, set) == SelectSeq(list, LAMBDA x : x \in set)

\* C8: clear_done leaves every open task stored under its id with every
\* attribute as it was, the open tasks in the same relative order in every
\* list, and the counter unchanged.
C8_ClearDoneKeepsOpen ==
    \A c \in {clear_done(Here), service_clear_done(Here)} :
        /\ \A k \in OpenIds :
              /\ k \in Keys(c.tasks)
              /\ GetItem(c.tasks, k) = Stored(k)
        /\ \A status \in StatusFilters, sort \in SortFields :
              Only(list_all(c, status, None, sort).ret.list, OpenIds)
                = Only(list_all(Here, status, None, sort).ret.list, OpenIds)
        /\ \A sort \in SortFields :
              list_all(c, s_all, None, sort).ret.list
                = list_all(Here, s_open, None, sort).ret.list
        /\ c.next_id = _next_id

\* C8: clear_done has removed task 2 and left tasks 3 and 1, which list in
\* that order by creation time.
C8_Witness ==
    /\ result.op = "clear_done"
    /\ result.count = 1
    /\ StoredIds = {1, 3}
    /\ list_all(Here, s_all, None, s_created).ret.list = <<3, 1>>

\* Dates in calendar order.
DateBefore(a, b) ==
    \/ a[1] < b[1]
    \/ a[1] = b[1] /\ a[2] < b[2]
    \/ a[1] = b[1] /\ a[2] = b[2] /\ a[3] < b[3]

\* x comes before y in list.
Precedes(list, x, y) ==
    \E i, j \in DOMAIN list : i < j /\ list[i] = x /\ list[j] = y

\* list holds each stored task once and nothing else.
ListsAll(list) ==
    /\ Len(list) = Cardinality(StoredIds)
    /\ {list[i] : i \in DOMAIN list} = StoredIds

ByDue == list_all(Here, s_all, None, s_due).ret.list

\* C9: list with sort=due returns the tasks with a due date before those
\* with none; those with a due date by ascending date and, on equal dates, by
\* ascending id; those with none by ascending id.
C9_SortByDue ==
    /\ ListsAll(ByDue)
    /\ \A x, y \in StoredIds :
          LET dx == Stored(x).due_date
              dy == Stored(y).due_date
          IN (\/ dx # None /\ dy = None
              \/ dx # None /\ dy # None /\ DateBefore(dx, dy)
              \/ dx = dy /\ Stored(x).id < Stored(y).id)
             => Precedes(ByDue, x, y)

\* C9: a list by due date of an undated task, a task due on 31 December and
\* a task due on 15 January has returned them in the reverse order.
C9_Witness ==
    /\ result.op = "list_all"
    /\ result.list = ByDue
    /\ result.list = <<3, 2, 1>>
    /\ Stored(1).due_date = None
    /\ Stored(2).due_date = D2
    /\ Stored(3).due_date = D1

ByPriority == list_all(Here, s_all, None, s_priority).ret.list

\* The place of a priority in the order high, med, low, none.
Rank(p) ==
    CASE p = s_high -> 1
      [] p = s_med -> 2
      [] p = s_low -> 3
      [] p = None -> 4

\* C10: list with sort=priority returns the tasks in the order high, med,
\* low, no priority, and tasks of equal priority by ascending id.
C10_SortByPriority ==
    /\ ListsAll(ByPriority)
    /\ \A x, y \in StoredIds :
          (\/ Rank(Stored(x).priority) < Rank(Stored(y).priority)
           \/ /\ Stored(x).priority = Stored(y).priority
              /\ Stored(x).id < Stored(y).id)
          => Precedes(ByPriority, x, y)

\* C10: a list by priority of tasks of priority low, med and med has
\* returned the two of priority med in id order before the other.
C10_Witness ==
    /\ result.op = "list_all"
    /\ result.list = ByPriority
    /\ result.list = <<2, 3, 1>>
    /\ Stored(1).priority = s_low
    /\ Stored(2).priority = s_med
    /\ Stored(3).priority = s_med

\* The list that list_all returns for a status filter, by creation time.
ByCreated(status) == list_all(Here, status, None, s_created).ret.list

\* C11: list with sort=created returns the tasks by ascending created_at and,
\* on equal created_at, by ascending id, whatever the order of creation and
\* whatever was updated since; so does list_tasks, and so under every status
\* filter.
C11_SortByCreated ==
    /\ ListsAll(ByCreated(s_all))
    /\ \A status \in StatusFilters :
          LET list == ByCreated(status)
              listed == {list[i] : i \in DOMAIN list}
          IN /\ listed \subseteq StoredIds
             /\ list_tasks(Here, status, None, s_created).ret.list = list
             /\ \A x, y \in listed :
                   (\/ Stored(x).created_at < Stored(y).created_at
                    \/ /\ Stored(x).created_at = Stored(y).created_at
                       /\ Stored(x).id < Stored(y).id)
                   => Precedes(list, x, y)

\* C11: a list by creation time of a task created at time 2 and, after it,
\* two tasks created at time 1, one of them marked done since, has returned
\* the two later tasks in id order before the first.
C11_Witness ==
    /\ result.op = "list_all"
    /\ result.list = <<2, 3, 1>>
    /\ result.list = ByCreated(s_all)
    /\ Stored(1).created_at = 2
    /\ Stored(2).created_at = 1
    /\ Stored(3).created_at = 1
    /\ Stored(2).status = s_done

\* The stored tasks a status filter selects.
Selected(status) ==
    {x \in StoredIds : status = s_all \/ Stored(x).status = status}

\* Task x is before task y in the order of a sort field: by the attribute the
\* field names and, where the two tasks agree in it, by id.
Before(sort, x, y) ==
    LET tx == Stored(x)
        ty == Stored(y)
        ById == tx.id < ty.id
    IN CASE sort = s_created ->
              \/ tx.created_at < ty.created_at
              \/ tx.created_at = ty.created_at /\ ById
         [] sort = s_due ->
              \/ tx.due_date # None /\ ty.due_date = None
              \/ tx.due_date # None /\ ty.due_date # None
                   /\ DateBefore(tx.due_date, ty.due_date)
              \/ tx.due_date = ty.due_date /\ ById
         [] sort = s_priority ->
              \/ Rank(tx.priority) < Rank(ty.priority)
              \/ tx.priority = ty.priority /\ ById

\* The repository with the same tasks stored in the opposite order.
Reversed ==
    Repo([i \in DOMAIN _tasks |-> _tasks[Len(_tasks) + 1 - i]], _next_id, result)

\* C12: under every sort field and status filter the list holds the selected
\* tasks once each in the one order the attributes of the tasks fix: every
\* two listed tasks are in the order of the sort field, ties resolved by
\* ascending id, and the same tasks stored in another order give the same
\* list.
C12_DeterministicOrder ==
    \A sort \in SortFields, status \in StatusFilters :
        LET list == list_all(Here, status, None, sort).ret.list
        IN /\ Len(list) = Cardinality(Selected(status))
           /\ {list[i] : i \in DOMAIN list} = Selected(status)
           /\ \A i, j \in DOMAIN list :
                 i < j => Before(sort, list[i], list[j])
           /\ \A x, y \in Selected(status) :
                 x # y => (Before(sort, x, y) \/ Before(sort, y, x))
           /\ list_all(Reversed, status, None, sort).ret.list = list

\* C12: of two tasks of priority high, the first, created later, was given
\* the priority by an update and the second at creation; the list by
\* priority has returned them in id order, and the list by creation time
\* would return them in the opposite order.
C12_Witness ==
    /\ result.op = "list_all"
    /\ result.list = <<1, 2>>
    /\ result.list = list_all(Here, s_all, None, s_priority).ret.list
    /\ Stored(1).created_at = 2
    /\ Stored(1).priority = s_high
    /\ Stored(2).created_at = 1
    /\ Stored(2).priority = s_high
    /\ ByCreated(s_all) = <<2, 1>>

\* The tasks in a list, and whether the list holds any of them twice.
Listed(list) == {list[i] : i \in DOMAIN list}

Once(list) == \A i, j \in DOMAIN list : list[i] = list[j] => i = j

\* C13: list with status=open returns exactly the stored tasks that are open,
\* with status=done exactly those that are done, with status=all every
\* stored task, each of them once, under every sort field; list_tasks
\* returns the same.
C13_StatusFilter ==
    \A sort \in SortFields :
        LET open == list_all(Here, s_open, None, sort).ret.list
            done == list_all(Here, s_done, None, sort).ret.list
            all == list_all(Here, s_all, None, sort).ret.list
        IN /\ Once(open) /\ Once(done) /\ Once(all)
           /\ Listed(open) = {x \in StoredIds : Stored(x).status = s_open}
           /\ Listed(done) = {x \in StoredIds : Stored(x).status = s_done}
           /\ Listed(all) = StoredIds
           /\ list_tasks(Here, s_open, None, sort).ret.list = open
           /\ list_tasks(Here, s_done, None, sort).ret.list = done
           /\ list_tasks(Here, s_all, None, sort).ret.list = all

\* C13: with an open and a done task stored, a list has returned the done
\* task alone.
C13_Witness ==
    /\ result.op = "list_all"
    /\ result.list = <<2>>
    /\ StoredIds = {1, 2}
    /\ Stored(1).status = s_open
    /\ Stored(2).status = s_done

\* A letter in lower and in upper case.
CasePairs == {<<"a", "A">>, <<"x", "X">>, <<"y", "Y">>}

\* Strings s and t are equal up to the case of their letters.
SameIgnoringCase(s, t) ==
    /\ Len(s) = Len(t)
    /\ \A i \in DOMAIN s :
          \/ s[i] = t[i]
          \/ <<s[i], t[i]>> \in CasePairs
          \/ <<t[i], s[i]>> \in CasePairs

\* C14: list with a tag filter returns, once each, exactly the tasks passing
\* the status filter that have a tag equal to the filter as a whole string
\* up to case; with no tag filter it returns every task passing the status
\* filter; the tags are stored as they were given and a list leaves them so.
C14_TagFilter ==
    /\ \A status \in StatusFilters, tag \in TagFilters :
          LET r == list_all(Here, status, tag, s_created)
              list == r.ret.list
          IN /\ Once(list)
             /\ Listed(list) =
                   {x \in Selected(status) :
                        \/ tag = None
                        \/ \E k \in DOMAIN Stored(x).tags :
                              SameIgnoringCase(Stored(x).tags[k], tag)}
             /\ r.tasks = _tasks
             /\ list_tasks(Here, status, tag, s_created).ret.list = list
    /\ \A tags \in TagLists \ {NoneList} :
          LET a == add(Here, <<"a">>, 1, None, None, tags)
          IN GetItem(a.tasks, a.ret.task).tags = tags

\* C14: of two open tasks, the first with the tag "X" and the second with
\* the tag "xy", a list with the tag filter "x" has returned the first
\* alone, its tag still "X".
C14_Witness ==
    /\ result.op = "list_all"
    /\ result.list = <<1>>
    /\ StoredIds = {1, 2}
    /\ result.list = list_all(Here, s_all, <<"x">>, s_created).ret.list
    /\ Stored(1).tags = <<(<<"X">>)>>
    /\ Stored(2).tags = <<(<<"x", "y">>)>>
    /\ Stored(1).status = s_open
    /\ Stored(2).status = s_open

\* The call r of task task_id succeeded and left the task with the given
\* status and nothing else changed; the same call once more, ending as
\* again, changed nothing at all.
SetsStatusOnce(r, again, task_id, status) ==
    /\ r.ret.exc = ""
    /\ r.ret.task = task_id
    /\ r.next_id = _next_id
    /\ r.tasks = SetItem(_tasks, task_id, [Stored(task_id) EXCEPT !.status = status])
    /\ \A k \in StoredIds \ {task_id} : GetItem(r.tasks, k) = Stored(k)
    /\ again.ret = r.ret
    /\ again.tasks = r.tasks
    /\ again.next_id = r.next_id

\* C15: mark_done of a stored task succeeds whether the task is open or done
\* and leaves it done, reopen_task likewise and leaves it open; neither
\* changes another attribute, another task or the counter, and a second call
\* changes nothing.
C15_StatusIdempotent ==
    \A task_id \in StoredIds :
        /\ SetsStatusOnce(mark_done(Here, task_id),
                          mark_done(mark_done(Here, task_id), task_id),
                          task_id, s_done)
        /\ SetsStatusOnce(reopen_task(Here, task_id),
                          reopen_task(reopen_task(Here, task_id), task_id),
                          task_id, s_open)

\* C15: reopen_task has left a task open with its two tags, next to a task
\* that is done.
C15_Witness ==
    /\ result.op = "reopen_task"
    /\ result.exc = ""
    /\ StoredIds = {1, 2}
    /\ Stored(result.task).status = s_open
    /\ Stored(result.task).tags = <<(<<"x">>), (<<"y">>)>>
    /\ \E k \in StoredIds : Stored(k).status = s_done

\* The call r removed task task_id and nothing else.
RemovesOnly(r, task_id) ==
    /\ r.ret.exc = ""
    /\ r.next_id = _next_id
    /\ Keys(r.tasks) = StoredIds \ {task_id}
    /\ \A k \in StoredIds \ {task_id} : GetItem(r.tasks, k) = Stored(k)
    /\ r.tasks = SelectSeq(_tasks, LAMBDA e : e[1] # task_id)
    /\ get(r, task_id).ret.exc = "TaskNotFoundError"
    /\ get(r, task_id).ret.task_id = task_id

\* C16: delete of a stored task, and delete_task, remove that task alone:
\* get of its id then fails with NotFound, every other task is stored as it
\* was, in the same order, and the counter is unchanged.
C16_DeleteFrame ==
    \A task_id \in StoredIds :
        /\ RemovesOnly(delete(Here, task_id), task_id)
        /\ RemovesOnly(delete_task(Here, task_id), task_id)

\* C16: delete has removed the second of three tasks, of which the first is
\* done and the third open.
C16_Witness ==
    /\ result.op = "delete"
    /\ result.exc = ""
    /\ StoredIds = {1, 3}
    /\ _next_id = 4
    /\ Stored(1).status = s_done
    /\ Stored(3).status = s_open

\* The ids of the tasks that were created and are no longer stored: those
\* removed by delete or by clear_done.
Removed == {created[i] : i \in DOMAIN created} \ StoredIds

\* C17: an id removed by delete or clear_done is absent in the next state
\* whatever the next call is, a create included, and get, update and delete
\* of it fail there with NotFound; so it is absent in every later state.
C17_RemovedStaysAbsent ==
    [][\A task_id \in Removed :
          /\ task_id \in Removed'
          /\ NotFoundUnchanged(get(Here, task_id), task_id)'
          /\ NotFoundUnchanged(
                 update(Here, task_id, <<"b">>, s_done, None, None, NoneList),
                 task_id)'
          /\ NotFoundUnchanged(delete(Here, task_id), task_id)']_vars

\* C17: the first task was removed and a second created since; the id of
\* the first is not stored.
C17_Witness ==
    /\ created = <<1, 2>>
    /\ StoredIds = {2}
    /\ Removed = {1}
    /\ result.op = "add"
    /\ result.task = 2

\* <<title, created_at, due_date, priority, tags>> of a call of add.
AddArgs ==
    {<<"a">>, <<"B", "u", "y">>} \X Times \X {None, D1} \X {None, s_high}
        \X {NoneList, <<>>, <<(<<"x">>)>>}

\* C18: add on a repository in which nothing was created returns id 1; every
\* add stores, under the id it returns, a task that is open and has the
\* given title, created_at, due_date and priority and the given tags, or no
\* tags when none were given, and a following get of that id returns the
\* same task.
C18_CreateStores ==
    \A a \in AddArgs :
        LET r == add(Here, a[1], a[2], a[3], a[4], a[5])
            id == r.ret.task
        IN /\ r.ret.exc = ""
           /\ created = <<>> => id = 1
           /\ id \notin StoredIds
           /\ Keys(r.tasks) = StoredIds \cup {id}
           /\ GetItem(r.tasks, id) =
                 Task(id, a[1], s_open, a[2], a[3], a[4],
                      IF a[5] = NoneList THEN <<>> ELSE a[5])
           /\ get(r, id).ret.exc = ""
           /\ get(r, id).ret.task = id
           /\ get(r, id).tasks = r.tasks

\* C18: the first add, with a due date, a priority and no tags, has stored
\* task 1, open, with that due date and priority and the empty list of tags.
C18_Witness ==
    /\ result.op = "add"
    /\ result.exc = ""
    /\ result.task = 1
    /\ created = <<1>>
    /\ Stored(1) = Task(1, <<"a">>, s_open, 1, D1, s_high, <<>>)

\* C19: a task that is stored before and after a call (update, update_task,
\* mark_done, reopen_task, list, or add, delete and clear_done of other
\* tasks) has the same id and the same created_at after it as before.
C19_IdAndCreatedAtImmutable ==
    [][\A k \in StoredIds :
          k \in Keys(_tasks') =>
             /\ GetItem(_tasks', k).id = Stored(k).id
             /\ GetItem(_tasks', k).created_at = Stored(k).created_at]_vars

\* C19: the first task, created at time 2, was renamed and marked done and
\* has been reopened, and the second task was removed; the first still has
\* id 1 and created_at 2.
C19_Witness ==
    /\ result.op = "reopen_task"
    /\ result.exc = ""
    /\ created = <<1, 2>>
    /\ StoredIds = {1}
    /\ Stored(1) = Task(1, <<"b">>, s_open, 2, None, None, <<>>)

\* C20: in every state no two stored tasks have the same id, no key is held
\* twice, and every task is stored under the key equal to its id.
C20_OneTaskPerId ==
    /\ \A i, j \in DOMAIN _tasks :
          (\/ _tasks[i][1] = _tasks[j][1]
           \/ _tasks[i][2].id = _tasks[j][2].id) => i = j
    /\ \A i \in DOMAIN _tasks : _tasks[i][2].id = _tasks[i][1]

\* C20: after the second of three tasks was removed and the third updated,
\* two tasks are stored, with the ids 1 and 3, each under its id.
C20_Witness ==
    /\ result.op \in {"update", "update_task", "mark_done"}
    /\ result.exc = ""
    /\ result.task = 3
    /\ Len(_tasks) = 2
    /\ StoredIds = {1, 3}
    /\ Stored(1).id = 1
    /\ Stored(3).id = 3

\* The positions of the characters of s that are not whitespace.
Inked(s) == {i \in DOMAIN s : s[i] \notin Whitespace}

\* s without the whitespace before its first and after its last character
\* that is not whitespace; the empty string when it has no such character.
Trimmed(s) ==
    IF Inked(s) = {} THEN <<>>
    ELSE LET first == CHOOSE i \in Inked(s) : \A j \in Inked(s) : i <= j
             last == CHOOSE i \in Inked(s) : \A j \in Inked(s) : j <= i
         IN [k \in 1 .. (last - first + 1) |-> s[first + k - 1]]

\* The k-th of the pieces into which the commas cut s, counted from the left.
Piece(s, k) ==
    LET commas == {i \in DOMAIN s : s[i] = ","}
        Cut(n) == IF n = 0 THEN 0
                  ELSE IF n > Cardinality(commas) THEN Len(s) + 1
                  ELSE CHOOSE i \in commas : Cardinality({j \in commas : j < i}) = n - 1
    IN [i \in 1 .. (Cut(k) - Cut(k - 1) - 1) |-> s[Cut(k - 1) + i]]

\* The pieces of s that are not blank, by their number.
Kept(s) ==
    {k \in 1 .. (Cardinality({i \in DOMAIN s : s[i] = ","}) + 1) :
        Trimmed(Piece(s, k)) # <<>>}

\* The tags to be read from s: the pieces that are not blank, trimmed, from
\* left to right, equal ones repeated.
TagsOf(s) ==
    [n \in 1 .. Cardinality(Kept(s)) |->
        Trimmed(Piece(s, CHOOSE k \in Kept(s) :
                            Cardinality({j \in Kept(s) : j < k}) = n - 1))]

s_work_home == <<"w", "o", "r", "k", ",", ",", "h", "o", "m", "e">>

\* A repository holding one task, created with the tag "x".
OneTask == add(Repo(<<>>, 1, NoResult), <<"a">>, 1, None, None, <<(<<"x">>)>>)

\* C24: parse_tags returns the empty list for None and otherwise the comma-
\* separated pieces of its argument, trimmed, without the blank ones, from
\* left to right, equal ones repeated; add_task and update_task store that
\* list, in which every tag is non-empty and trimmed, and update_task with
\* "work,,home" stores ["work", "home"].
C24_ParseTags ==
    /\ parse_tags(None) = <<>>
    /\ parse_tags(s_work_home) = <<(<<"w", "o", "r", "k">>), (<<"h", "o", "m", "e">>)>>
    /\ GetItem(update_task(OneTask, 1, None, Ellipsis, Ellipsis, s_work_home).tasks, 1).tags
          = <<(<<"w", "o", "r", "k">>), (<<"h", "o", "m", "e">>)>>
    /\ call.fn = "parse_tags" =>
          LET tags == call.ret.value
              added == add_task(OneTask, 1, <<"a">>, None, None, call.arg)
              updated == update_task(OneTask, 1, None, Ellipsis, Ellipsis, call.arg)
          IN /\ call.ret.exc = ""
             /\ tags = IF call.arg = None THEN <<>> ELSE TagsOf(call.arg)
             /\ \A i \in DOMAIN tags : tags[i] # <<>> /\ Trimmed(tags[i]) = tags[i]
             /\ GetItem(added.tasks, 2).tags = tags
             /\ GetItem(updated.tasks, 1).tags = tags

\* C24: parse_tags was applied to "b,,b" and returned ["b", "b"].
C24_Witness ==
    /\ call.fn = "parse_tags"
    /\ call.arg = <<"b", ",", ",", "b">>
    /\ call.ret.value = <<(<<"b">>), (<<"b">>)>>

\* C25: where validate_title succeeds, validate_title of what it returned
\* succeeds too and returns the same.
C25_ValidateTitleIdempotent ==
    /\ (call.fn = "validate_title" /\ call.ret.exc = "") =>
          validate_title(call.ret.value) = call.ret
    /\ (call.fn = "validate_title" /\ call.times = 2) =>
          /\ call.ret.exc = ""
          /\ call.ret = validate_title(call.arg)

\* C25: validate_title was applied to "  a " and then to the "a" it
\* returned, and returned "a" again.
C25_Witness ==
    /\ call.fn = "validate_title"
    /\ call.times = 2
    /\ call.arg = <<" ", " ", "a", " ">>
    /\ call.ret = Valid(<<"a">>)

\* The call r, of task task_id where it names one, succeeded or failed with
\* InvalidInput and a message or with NotFound and that id.
TwoErrorKinds(r, task_id) ==
    \/ r.ret.exc = ""
    \/ r.ret.exc = "ValidationError" /\ r.ret.message # ""
    \/ r.ret.exc = "TaskNotFoundError" /\ r.ret.task_id = task_id

\* C21: every call of add_task, get_task, list_tasks, mark_done,
\* reopen_task, update_task, delete_task and clear_done succeeds or fails
\* with InvalidInput and a message or with NotFound and the id it was given:
\* so did the last call made, and so does every call that can be made now.
C21_TwoErrorKinds ==
    /\ result.exc \in {"", "ValidationError", "TaskNotFoundError"}
    /\ result.exc = "ValidationError" => result.message # ""
    /\ result.exc = "TaskNotFoundError" => result.task_id \in ServedIds \ StoredIds
    /\ \A a \in ServedAdds \cup AddTaskArgs :
          TwoErrorKinds(add_task(Here, 1, a[1], a[2], a[3], a[4]), 0)
    /\ \A status \in StatusFilters, sort \in SortFields, tag \in {None, <<"x">>} :
          list_tasks(Here, status, tag, sort).ret.exc = ""
    /\ service_clear_done(Here).ret.exc = ""
    /\ \A task_id \in ServedIds :
          /\ TwoErrorKinds(get_task(Here, task_id), task_id)
          /\ TwoErrorKinds(mark_done(Here, task_id), task_id)
          /\ TwoErrorKinds(reopen_task(Here, task_id), task_id)
          /\ TwoErrorKinds(delete_task(Here, task_id), task_id)
          /\ \A a \in ServedUpdates \cup UpdateTaskArgs :
                TwoErrorKinds(update_task(Here, task_id, a[1], a[2], a[3], a[4]),
                              task_id)

\* C21: delete_task of task 1, which was created and is no longer stored,
\* has failed with NotFound and the id 1.
C21_Witness ==
    /\ result.op = "delete_task"
    /\ result.exc = "TaskNotFoundError"
    /\ result.task_id = 1
    /\ created = <<1>>
    /\ StoredIds = {}

\* Titles as they may be typed.
TitleInputs ==
    {<<" ", "a">>, <<"a", " ", "b", " ">>, <<"\n", "b", " ", "b", "\t">>, <<"a">>,
     <<>>, <<" ">>, <<"\t", " ", "\n">>}

\* C22: every stored title is non-empty and has no whitespace at either end;
\* add_task and update_task store the title trimmed, and fail with
\* InvalidInput, changing nothing, when nothing is left of it.
C22_TitleTrimmed ==
    /\ \A k \in StoredIds :
          /\ Stored(k).title # <<>>
          /\ Stored(k).title[1] \notin Whitespace
          /\ Stored(k).title[Len(Stored(k).title)] \notin Whitespace
    /\ \A raw \in TitleInputs :
          /\ LET r == add_task(Here, 1, raw, None, None, None)
             IN IF Trimmed(raw) = <<>>
                THEN /\ r.ret.exc = "ValidationError"
                     /\ r.tasks = _tasks
                     /\ r.next_id = _next_id
                ELSE /\ r.ret.exc = ""
                     /\ GetItem(r.tasks, r.ret.task).title = Trimmed(raw)
          /\ \A task_id \in StoredIds :
                LET r == update_task(Here, task_id, raw, Ellipsis, Ellipsis, Ellipsis)
                IN IF Trimmed(raw) = <<>>
                   THEN /\ r.ret.exc = "ValidationError"
                        /\ r.tasks = _tasks
                   ELSE /\ r.ret.exc = ""
                        /\ GetItem(r.tasks, task_id).title = Trimmed(raw)

\* C22: a task created with the title "a b " is stored as "a b", then
\* update_task with the title "" has failed and left it so.
C22_Witness ==
    /\ result.op = "update_task"
    /\ result.exc = "ValidationError"
    /\ result.message = "Title cannot be empty"
    /\ StoredIds = {1}
    /\ Stored(1).title = <<"a", " ", "b">>

\* Priorities as they may be typed.
PriorityInputs ==
    {s_low, s_med, s_high, r_HIGH, r_urgent, <<>>, <<"L", "o", "w">>,
     <<" ", "l", "o", "w">>, <<"m", "e", "d", " ">>, <<"h">>}

\* C23: every stored priority is None, low, med or high; validate_priority
\* returns None for None and the string itself for low, med and high, and
\* fails for every other string, HIGH and urgent among them, with
\* InvalidInput; add_task and update_task then change nothing.
C23_PriorityEnum ==
    /\ \A k \in StoredIds : Stored(k).priority \in {None, s_low, s_med, s_high}
    /\ validate_priority(None) = Valid(None)
    /\ \A p \in PriorityInputs :
          LET added == add_task(Here, 1, <<"a">>, None, p, None)
          IN IF p \in {s_low, s_med, s_high}
             THEN /\ validate_priority(p) = Valid(p)
                  /\ added.ret.exc = ""
                  /\ GetItem(added.tasks, added.ret.task).priority = p
                  /\ \A task_id \in StoredIds :
                        GetItem(update_task(Here, task_id, None, Ellipsis, p,
                                            Ellipsis).tasks, task_id).priority = p
             ELSE /\ validate_priority(p).exc = "ValidationError"
                  /\ validate_priority(p).message # ""
                  /\ added.ret.exc = "ValidationError"
                  /\ added.tasks = _tasks
                  /\ \A task_id \in StoredIds :
                        LET r == update_task(Here, task_id, None, Ellipsis, p, Ellipsis)
                        IN r.ret.exc = "ValidationError" /\ r.tasks = _tasks

\* C23: update_task with the priority HIGH has failed and left the task at
\* the priority low given to it before.
C23_Witness ==
    /\ result.op = "update_task"
    /\ result.exc = "ValidationError"
    /\ result.message = "Invalid priority"
    /\ StoredIds = {1}
    /\ Stored(1).priority = s_low

\* C30: in every state the counter is one more than the number of creates
\* that succeeded and is greater than every stored id; a step changes the
\* counter only if it is a create that succeeded, which adds one to it; a
\* list or a get changes neither the counter nor the task map.
C30_CounterCountsCreates ==
    /\ [](/\ _next_id = Len(created) + 1
          /\ \A k \in StoredIds : k < _next_id)
    /\ [][/\ (_next_id' # _next_id) =>
                 (/\ result'.op \in {"add", "add_task"}
                  /\ result'.exc = ""
                  /\ _next_id' = _next_id + 1
                  /\ created' = Append(created, _next_id))
          /\ (result'.op \in {"get", "get_task", "list_all", "list_tasks"}) =>
                 (_next_id' = _next_id /\ _tasks' = _tasks)
          /\ (result'.exc # "") => (_next_id' = _next_id)]_vars

\* C30: two tasks were created, the second was removed and the first
\* looked up: the counter is 3 and only task 1 is stored.
C30_Witness ==
    /\ result.op = "get"
    /\ result.exc = ""
    /\ created = <<1, 2>>
    /\ StoredIds = {1}
    /\ _next_id = 3

\* The words of a command line, none if it cannot be split.
Words(line) == IF shlex_split(line).exc = "" THEN shlex_split(line).value ELSE <<>>

\* The command a line gives, its aliases resolved.
Command(line) == IF Words(line) = <<>> THEN <<>> ELSE command(Words(line))

\* The line gives the command to the task of this id.
Names(line, cmd, task_id) ==
    /\ Command(line) = cmd
    /\ Len(Words(line)) >= 2
    /\ int(Words(line)[2]) = Valid(task_id)

\* One of the flags follows the id on the line.
Flagged(line, flags) == \E i \in 3 .. Len(Words(line)) : Words(line)[i] \in flags

\* The line that was printed last.
Last(out) == out[Len(out)]

\* The command failed: its last line is an error, "Unknown command" or
\* "Cancelled.".
Failed(out) ==
    /\ out # <<>>
    /\ \/ Last(out).error
       \/ Last(out).message \in {"Unknown command", "Cancelled."}

\* The lines read by the prompts fall short of n answers: the input ended
\* or an interrupt came.
CancelledBefore(answers, n) ==
    \/ Len(answers) < n
    \/ \E i \in 1 .. n : answers[i] = KeyboardInterrupt

\* The flags of update that give a field.
UpdateFlags ==
    {<<"-", "-">> \o key : key \in {s_title, s_due, s_priority, s_tag}}

\* C26: a command that fails (an invalid field, an id not stored, an unknown
\* command, an invalid or a missing id, a line that cannot be split, a
\* cancelled prompt) prints its message and leaves the task map and the
\* counter as they were, and the loop goes on to read the next line; no
\* exception ends the program; and the loop ends only by quit, exit or q,
\* by the end of the input or by an interrupt.
C26_ShellGoesOn ==
    /\ [][shell.state = "executing" =>
             /\ shell'.state = "executed"
             /\ (\/ shell.line \in {l_add_urgent, l_delete_x, l_delete_none, l_bogus,
                                   l_open_quote, l_list_bad}
                 \/ \E task_id \in {1, 2} :
                       /\ task_id \notin StoredIds
                       /\ \E cmd \in {s_show, s_done, s_reopen, s_update, s_delete} :
                             Names(shell.line, cmd, task_id)
                 \/ /\ Names(shell.line, s_update, 1)
                    /\ ~Flagged(shell.line, UpdateFlags)
                    /\ CancelledBefore(shell'.answers, 4))
                => Failed(shell'.out)
             /\ Failed(shell'.out) =>
                   /\ ~shell'.exit
                   /\ _tasks' = _tasks
                   /\ _next_id' = _next_id]_vars
    /\ [][shell'.state = "ended" /\ shell.state # "ended" =>
             \/ shell.state = "reading" /\ shell'.line \in {EOF, KeyboardInterrupt}
             \/ /\ shell.state = "executed"
                /\ lower(Words(shell.line)[1]) \in {s_quit, s_exit, s_q}]_vars
    /\ (shell.state = "executed" /\ Failed(shell.out)) ~> (shell.state = "reading")

\* C26: the command DELETE 2 has failed, no task 2 being stored: the error
\* was printed, task 1 is stored as before and the loop goes on.
C26_Witness ==
    /\ shell.state = "executed"
    /\ shell.line = l_delete_2
    /\ shell.out = <<Error("Task not found", 2)>>
    /\ ~shell.exit
    /\ StoredIds = {1}

\* The first of the lines read by a prompt, stripped and in lower case, is
\* y or yes.
SaidYes(answers) ==
    /\ answers # <<>>
    /\ answers[1] # KeyboardInterrupt
    /\ lower(strip(answers[1])) \in {s_y, s_yes}

\* C27: a delete of a stored task without -f or --force removes it only if
\* the next line of the input, stripped and in lower case, is y or yes, and
\* otherwise, or at the end of the input, prints "Cancelled." and leaves the
\* task map as it was; with -f or --force the task is removed and no line
\* is read.
C27_DeleteConfirms ==
    [][\A task_id \in StoredIds :
          shell.state = "executing" /\ Names(shell.line, s_delete, task_id) =>
             IF Flagged(shell.line, {<<"-", "f">>, <<"-", "-">> \o s_force})
             THEN /\ shell'.answers = <<>>
                  /\ Keys(_tasks') = StoredIds \ {task_id}
             ELSE IF SaidYes(shell'.answers)
             THEN /\ Len(shell'.answers) = 1
                  /\ Keys(_tasks') = StoredIds \ {task_id}
             ELSE /\ _tasks' = _tasks
                  /\ Last(shell'.out) = Printed("Cancelled.", 0)]_vars

\* C27: the command delete 1 --f has removed task 1 and read no line.
C27_Witness ==
    /\ shell.state = "executed"
    /\ shell.line = l_delete_ff
    /\ shell.answers = <<>>
    /\ shell.out = <<Printed("Deleted task", 1)>>
    /\ created = <<1>>
    /\ StoredIds = {}

\* C28: an update of a stored task with none of --title, --due, --priority
\* and --tag prints the task and the first prompt; when all four prompts
\* are answered by an empty line the task map is left as it was and the
\* update is reported.
C28_GuidedEmptyKeeps ==
    [][\A task_id \in StoredIds :
          /\ shell.state = "executing"
          /\ Names(shell.line, s_update, task_id)
          /\ ~Flagged(shell.line, UpdateFlags)
          => /\ Len(shell'.out) >= 2
             /\ shell'.out[1] = Printed("Current: ", task_id)
             /\ shell'.out[2] = Prompts[1]
             /\ shell'.answers = <<Typed(<<>>), Typed(<<>>), Typed(<<>>), Typed(<<>>)>> =>
                   /\ _tasks' = _tasks
                   /\ _next_id' = _next_id
                   /\ Last(shell'.out) = Printed("Updated task", task_id)]_vars

\* C28: update 1 was given, with --status only, to a task with a due date, a
\* priority and a tag; the four prompts were answered by empty lines and the
\* task is as it was created.
C28_Witness ==
    /\ shell.state = "executed"
    /\ shell.line = l_update_status
    /\ shell.answers = <<Typed(<<>>), Typed(<<>>), Typed(<<>>), Typed(<<>>)>>
    /\ Last(shell.out) = Printed("Updated task", 1)
    /\ StoredIds = {1}
    /\ Stored(1) = Task(1, <<"a">>, s_open, 1, D1, s_high, <<(<<"x">>)>>)

\* C29: in the guided mode of update, when the title is answered by an empty
\* line and each of due, priority and tags by an empty line or by none, the
\* fields answered by none are cleared, those answered by an empty line and
\* all other attributes are as before (none given for a field without a
\* value changes nothing); when a prompt is cancelled before the four
\* answers are read, the task map is left as it was.
C29_GuidedNoneClears ==
    [][\A task_id \in StoredIds :
          /\ shell.state = "executing"
          /\ Names(shell.line, s_update, task_id)
          /\ ~Flagged(shell.line, UpdateFlags)
          => LET answers == shell'.answers
                 Answer(i) == strip(answers[i])
             IN /\ CancelledBefore(answers, 4) =>
                      /\ _tasks' = _tasks
                      /\ Last(shell'.out) = Printed("Cancelled.", 0)
                /\ (/\ ~CancelledBefore(answers, 4)
                    /\ Answer(1) = <<>>
                    /\ \A i \in 2 .. 4 : Answer(i) \in {<<>>, s_none})
                   => /\ Keys(_tasks') = StoredIds
                      /\ \A k \in StoredIds \ {task_id} :
                            GetItem(_tasks', k) = Stored(k)
                      /\ GetItem(_tasks', task_id) =
                            [Stored(task_id) EXCEPT
                               !.due_date = IF Answer(2) = s_none THEN None ELSE @,
                               !.priority = IF Answer(3) = s_none THEN None ELSE @,
                               !.tags = IF Answer(4) = s_none THEN <<>> ELSE @]]_vars

\* C29: task 1 had a due date, a priority and a tag; the prompt for the due
\* date was answered by none and the others by empty lines, and the task has
\* no due date and the priority and the tag it had.
C29_Witness ==
    /\ shell.state = "executed"
    /\ shell.line = l_update
    /\ shell.answers = <<Typed(<<>>), Typed(s_none), Typed(<<>>), Typed(<<>>)>>
    /\ Last(shell.out) = Printed("Updated task", 1)
    /\ Stored(1) = Task(1, <<"a">>, s_open, 1, None, s_high, <<(<<"x">>)>>)

=============================================================================
